---------------------------- MODULE Spec2Model ----------------------------
(***************************************************************************)
(* A model of the registrar server (src/server.py): the SQLite store, the  *)
(* per-connection handler threads of handle_client, the request handlers   *)
(* and db_execute with its db_lock.  Every db_execute call is one atomic   *)
(* step of the calling thread (SQLite runs one statement atomically); a    *)
(* write is preceded by the acquisition of db_lock and releases it.  The   *)
(* code that runs between two db_execute calls touches only the thread's   *)
(* own locals and is folded into the step of the preceding call.           *)
(***************************************************************************)
EXTENDS Integers, Sequences, FiniteSets, Bags, TLC

(***************************************************************************)
(* Bounds of the model.                                                    *)
(***************************************************************************)
\* Number of connections the supervisor accepts in one run.
NSessions == 2
\* Largest capacity value an admin client sends.
MaxCap == 3
\* Number of half hours after 10:00 at which a schedule of the overlap runs
\* starts or ends.
NSlots == 3

(***************************************************************************)
(* Program constants.                                                      *)
(***************************************************************************)
ADMIN_USERNAME == "admin"
ADMIN_PASSWORD == "admin_password"
MAX_COURSES_PER_STUDENT == 5

Sessions == 1..NSessions

\* Python's None.
None == [none |-> TRUE]

(***************************************************************************)
(* Strings that the code takes apart are sequences of one-character        *)
(* strings.                                                                *)
(***************************************************************************)
Digits == <<"0", "1", "2", "3", "4", "5", "6", "7", "8", "9">>

IsDigit(ch) == \E i \in 1..10 : Digits[i] = ch

DigitVal(ch) == (CHOOSE i \in 1..10 : Digits[i] = ch) - 1

\* str.upper() on the letters the model's descriptors use.
Upper(ch) ==
    CASE ch = "m" -> "M" [] ch = "t" -> "T" [] ch = "w" -> "W"
      [] ch = "r" -> "R" [] ch = "f" -> "F" [] ch = "s" -> "S"
      [] ch = "u" -> "U" [] ch = "x" -> "X" [] OTHER -> ch

IsSpace(ch) == ch \in {" ", "\t"}

\* str.split(): the maximal runs of non-whitespace characters, in order.
RECURSIVE SplitWs(_, _, _)
SplitWs(s, i, cur) ==
    IF i > Len(s)
    THEN IF cur = <<>> THEN <<>> ELSE <<cur>>
    ELSE IF IsSpace(s[i])
         THEN IF cur = <<>>
              THEN SplitWs(s, i + 1, <<>>)
              ELSE <<cur>> \o SplitWs(s, i + 1, <<>>)
         ELSE SplitWs(s, i + 1, Append(cur, s[i]))

\* str.split(sep): the pieces between occurrences of sep, empty ones kept.
RECURSIVE SplitOn(_, _, _, _)
SplitOn(s, sep, i, cur) ==
    IF i > Len(s)
    THEN <<cur>>
    ELSE IF s[i] = sep
         THEN <<cur>> \o SplitOn(s, sep, i + 1, <<>>)
         ELSE SplitOn(s, sep, i + 1, Append(cur, s[i]))

\* The value of a string of one or two digits, -1 for anything else.
NumVal(t) ==
    IF Len(t) = 1 /\ IsDigit(t[1]) THEN DigitVal(t[1])
    ELSE IF Len(t) = 2 /\ IsDigit(t[1]) /\ IsDigit(t[2])
         THEN 10 * DigitVal(t[1]) + DigitVal(t[2])
         ELSE -1

\* datetime.strptime(t, '%H:%M'): the hour is one or two digits up to 23, the
\* minute one or two digits up to 59, nothing else may remain; ValueError
\* otherwise.
strptime(t) ==
    LET hm == SplitOn(t, ":", 1, <<>>) IN
    IF Len(hm) = 2 /\ NumVal(hm[1]) \in 0..23 /\ NumVal(hm[2]) \in 0..59
    THEN [ok |-> TRUE, hour |-> NumVal(hm[1]), minute |-> NumVal(hm[2])]
    ELSE [ok |-> FALSE, hour |-> 0, minute |-> 0]

valid_days == {"M", "T", "W", "R", "F", "S", "U"}

\* The parser without upper(): lower-case day letters are unknown letters.
parse_schedule_NoUpper(schedule_str) ==
    LET parts == SplitWs(schedule_str, 1, <<>>) IN
    IF Len(parts) # 2 THEN None
    ELSE
      LET days_str   == parts[1]
          time_parts == SplitOn(parts[2], "-", 1, <<>>)
      IN
      IF \E i \in 1..Len(days_str) : days_str[i] \notin valid_days THEN None
      ELSE IF Len(time_parts) # 2 THEN None
      ELSE
        LET start_time == strptime(time_parts[1])
            end_time   == strptime(time_parts[2])
            start_minutes == start_time.hour * 60 + start_time.minute
            end_minutes   == end_time.hour * 60 + end_time.minute
        IN
        IF ~start_time.ok \/ ~end_time.ok THEN None
        ELSE IF start_minutes >= end_minutes THEN None
        ELSE [days  |-> {days_str[i] : i \in 1..Len(days_str)},
              start |-> start_minutes,
              end   |-> end_minutes]

\* parse_schedule: None, or the days and the start and end minute of day.
parse_schedule(schedule_str) ==
    LET parts == SplitWs(schedule_str, 1, <<>>) IN
    IF Len(parts) # 2 THEN None
    ELSE
      LET days_str   == [i \in 1..Len(parts[1]) |-> Upper(parts[1][i])]
          time_parts == SplitOn(parts[2], "-", 1, <<>>)
      IN
      IF \E i \in 1..Len(days_str) : days_str[i] \notin valid_days THEN None
      ELSE IF Len(time_parts) # 2 THEN None
      ELSE
        LET start_time == strptime(time_parts[1])
            end_time   == strptime(time_parts[2])
            start_minutes == start_time.hour * 60 + start_time.minute
            end_minutes   == end_time.hour * 60 + end_time.minute
        IN
        IF ~start_time.ok \/ ~end_time.ok THEN None
        ELSE IF start_minutes >= end_minutes THEN None
        ELSE [days  |-> {days_str[i] : i \in 1..Len(days_str)},
              start |-> start_minutes,
              end   |-> end_minutes]

Max(a, b) == IF a >= b THEN a ELSE b

Min(a, b) == IF a <= b THEN a ELSE b

\* The comparison without the test of the common days.
check_schedule_overlap_AnyDay(schedule1_str, schedule2_str) ==
    LET parsed1 == parse_schedule(schedule1_str)
        parsed2 == parse_schedule(schedule2_str)
    IN
    IF parsed1 = None \/ parsed2 = None THEN FALSE
    ELSE Max(parsed1.start, parsed2.start) < Min(parsed1.end, parsed2.end)

\* The comparison with equality of the day sets for their intersection.
check_schedule_overlap_SameDays(schedule1_str, schedule2_str) ==
    LET parsed1 == parse_schedule(schedule1_str)
        parsed2 == parse_schedule(schedule2_str)
    IN
    IF parsed1 = None \/ parsed2 = None THEN FALSE
    ELSE IF parsed1.days # parsed2.days THEN FALSE
    ELSE Max(parsed1.start, parsed2.start) < Min(parsed1.end, parsed2.end)

\* The comparison of the first start with the second end only.
check_schedule_overlap_OneSided(schedule1_str, schedule2_str) ==
    LET parsed1 == parse_schedule(schedule1_str)
        parsed2 == parse_schedule(schedule2_str)
    IN
    IF parsed1 = None \/ parsed2 = None THEN FALSE
    ELSE IF parsed1.days \cap parsed2.days = {} THEN FALSE
    ELSE parsed1.start < parsed2.end

\* The comparison with '<=' for '<': windows that touch overlap.
check_schedule_overlap_Closed(schedule1_str, schedule2_str) ==
    LET parsed1 == parse_schedule(schedule1_str)
        parsed2 == parse_schedule(schedule2_str)
    IN
    IF parsed1 = None \/ parsed2 = None THEN FALSE
    ELSE IF parsed1.days \cap parsed2.days = {} THEN FALSE
    ELSE Max(parsed1.start, parsed2.start) <= Min(parsed1.end, parsed2.end)

\* check_schedule_overlap on two descriptors.
check_schedule_overlap(schedule1_str, schedule2_str) ==
    LET parsed1 == parse_schedule(schedule1_str)
        parsed2 == parse_schedule(schedule2_str)
    IN
    IF parsed1 = None \/ parsed2 = None THEN FALSE
    ELSE IF parsed1.days \cap parsed2.days = {} THEN FALSE
    ELSE Max(parsed1.start, parsed2.start) < Min(parsed1.end, parsed2.end)

(***************************************************************************)
(* Passwords.  SHA-256 is modelled as an injective tagging of the          *)
(* password: two different passwords never share a hash.                   *)
(***************************************************************************)
hash_password(password) == <<"sha256", password>>

\* The comparison left out: any password is taken for the stored one.
verify_password_Any(stored_hash, provided_password) == TRUE

verify_password(stored_hash, provided_password) ==
    stored_hash = hash_password(provided_password)

(***************************************************************************)
(* The store: the four tables of registrar.db.  admins maps a username to  *)
(* its password hash, students a username to its row, courses a name to    *)
(* its row; registrations is the bag of (student_username, course_name)    *)
(* rows.  SQLite enforces the PRIMARY KEY of each table on INSERT; it does *)
(* not enforce the FOREIGN KEY clauses (no PRAGMA foreign_keys is issued). *)
(***************************************************************************)
\* Course names in the order of ORDER BY c.name.
CourseOrder == <<"CHEM1", "CS101", "ECON1", "HIST1", "MATH1", "PHYS1",
                 "STAT1">>

RECURSIVE SumCopies(_, _)
SumCopies(B, S) ==
    IF S = {} THEN 0
    ELSE LET e == CHOOSE e \in S : TRUE
         IN CopiesIn(e, B) + SumCopies(B, S \ {e})

\* COUNT(r.course_name) of the registrations joined to one course.
CountRegistrations(d, course_name) ==
    SumCopies(d.registrations,
              {r \in BagToSet(d.registrations) : r[2] = course_name})

\* The number of registrations rows of one student.
CountOfStudent(d, student_username) ==
    SumCopies(d.registrations,
              {r \in BagToSet(d.registrations) : r[1] = student_username})

\* SELECT c.name, c.schedule, c.capacity, (c.capacity - COUNT(r.course_name))
\* ... WHERE c.name = ? GROUP BY c.name, fetchone: the row or None.
SelectCourse(d, course_name) ==
    IF course_name \in DOMAIN d.courses
    THEN [name            |-> course_name,
          schedule        |-> d.courses[course_name].schedule,
          capacity        |-> d.courses[course_name].capacity,
          remaining_seats |-> d.courses[course_name].capacity
                                - CountRegistrations(d, course_name)]
    ELSE None

\* SELECT 1 FROM registrations WHERE student_username = ? AND course_name = ?
SelectRegistration(d, student_username, course_name) ==
    BagIn(<<student_username, course_name>>, d.registrations)

RECURSIVE Repeat(_, _)
Repeat(row, n) == IF n <= 0 THEN <<>> ELSE <<row>> \o Repeat(row, n - 1)

RECURSIVE JoinRows(_, _, _)
JoinRows(d, student_username, i) ==
    IF i > Len(CourseOrder) THEN <<>>
    ELSE LET c == CourseOrder[i] IN
         (IF c \in DOMAIN d.courses
          THEN Repeat([name     |-> c,
                       schedule |-> d.courses[c].schedule,
                       capacity |-> d.courses[c].capacity],
                      CopiesIn(<<student_username, c>>, d.registrations))
          ELSE <<>>)
         \o JoinRows(d, student_username, i + 1)

\* get_student_registered_courses: courses JOIN registrations of the student,
\* ORDER BY c.name.
get_student_registered_courses(d, student_username) ==
    JoinRows(d, student_username, 1)

RECURSIVE DetailRows(_, _)
DetailRows(d, i) ==
    IF i > Len(CourseOrder) THEN <<>>
    ELSE (IF CourseOrder[i] \in DOMAIN d.courses
          THEN <<SelectCourse(d, CourseOrder[i])>>
          ELSE <<>>)
         \o DetailRows(d, i + 1)

\* The query without its LEFT JOIN: no registration is counted.
get_all_courses_details_NoJoin(d) ==
    DetailRows([d EXCEPT !.registrations = EmptyBag], 1)

\* get_all_courses_details: every course with its remaining seats, by name.
get_all_courses_details(d) == DetailRows(d, 1)

\* INSERT INTO registrations: refused (sqlite3.IntegrityError) when the
\* primary key (student_username, course_name) is already present.
\* The table without its primary key: every INSERT is accepted.
InsertRegistrationOk_NoKey(d, student_username, course_name) == TRUE

InsertRegistrationOk(d, student_username, course_name) ==
    ~BagIn(<<student_username, course_name>>, d.registrations)

InsertRegistration(d, student_username, course_name) ==
    [d EXCEPT !.registrations =
        @ (+) SetToBag({<<student_username, course_name>>})]

\* The DELETE without its course_name condition: every row of the student goes.
DeleteRegistration_AnyCourse(d, student_username, course_name) ==
    LET rest == {r \in BagToSet(d.registrations) : r[1] # student_username}
    IN [d EXCEPT !.registrations =
            IF rest = {} THEN EmptyBag
            ELSE [r \in rest |-> CopiesIn(r, d.registrations)]]

\* DELETE FROM registrations WHERE student_username = ? AND course_name = ?
\* removes every matching row; it succeeds when there is none.
DeleteRegistration(d, student_username, course_name) ==
    LET row == <<student_username, course_name>>
        rest == BagToSet(d.registrations) \ {row}
    IN [d EXCEPT !.registrations =
            IF rest = {} THEN EmptyBag
            ELSE [r \in rest |-> CopiesIn(r, d.registrations)]]

\* INSERT INTO courses: refused when the primary key name is present.
InsertCourseOk(d, name) == name \notin DOMAIN d.courses

InsertCourse(d, name, schedule, capacity) ==
    [d EXCEPT !.courses =
        [c \in DOMAIN d.courses \cup {name} |->
            IF c = name THEN [schedule |-> schedule, capacity |-> capacity]
            ELSE d.courses[c]]]

\* UPDATE courses SET capacity = ? WHERE name = ?: changes the matching row,
\* and succeeds when there is none.
UpdateCapacity(d, name, new_capacity) ==
    IF name \in DOMAIN d.courses
    THEN [d EXCEPT !.courses[name].capacity = new_capacity]
    ELSE d

\* INSERT INTO students: refused when the primary key username is present.
InsertStudentOk(d, username) == username \notin DOMAIN d.students

InsertStudent(d, name, username, password_hash) ==
    [d EXCEPT !.students =
        [u \in DOMAIN d.students \cup {username} |->
            IF u = username
            THEN [name |-> name, password_hash |-> password_hash]
            ELSE d.students[u]]]

\* The test with 'or' for 'and': a username without a row is let in.
StudentCredentialsOk_Or(d, username, password) ==
    \/ username \notin DOMAIN d.students
    \/ verify_password(d.students[username].password_hash, password)

\* SELECT password_hash FROM students WHERE username = ? and the comparison.
StudentCredentialsOk(d, username, password) ==
    /\ username \in DOMAIN d.students
    /\ verify_password(d.students[username].password_hash, password)

\* SELECT password_hash FROM admins WHERE username = ? and the comparison.
AdminCredentialsOk(d, username, password) ==
    /\ username \in DOMAIN d.admins
    /\ verify_password(d.admins[username], password)

\* The store init_db leaves on a machine that had no registrar.db.
FreshDb ==
    [admins        |-> [u \in {ADMIN_USERNAME} |-> hash_password(ADMIN_PASSWORD)],
     students      |-> [u \in {} |-> None],
     courses       |-> [c \in {} |-> None],
     registrations |-> EmptyBag]

(***************************************************************************)
(* State.  db is the content of registrar.db and db_lock the holder of the *)
(* threading.Lock (0: free).  The other variables are per connection: the  *)
(* connection itself, the three locals of handle_client, the handler       *)
(* thread's position, the request it is serving, the handler's live locals *)
(* and the last response sent.                                             *)
(***************************************************************************)
VARIABLES db, db_lock, conn, is_authenticated, user_type, username,
          pc, request, frame, response

vars == <<db, db_lock, conn, is_authenticated, user_type, username,
          pc, request, frame, response>>

session_vars == <<is_authenticated, user_type, username>>

\* request.get('data', {}): a request without data carries the empty object.
NoData == <<>>

NoRequest == [action |-> "", data |-> NoData]

NoFrame == None

NoResponse == [status |-> "", message |-> [text |-> "", args |-> <<>>],
               data |-> <<>>]

\* {"status": "error", "message": ...}
Error(text, args) ==
    [status |-> "error", message |-> [text |-> text, args |-> args],
     data |-> <<>>]

\* {"status": "success", "message": ...}
Success(text, args) ==
    [status |-> "success", message |-> [text |-> text, args |-> args],
     data |-> <<>>]

\* {"status": "success", "data": {key: rows}}
SuccessData(key, rows) ==
    [status |-> "success", message |-> [text |-> "", args |-> <<>>],
     data |-> <<key, rows>>]

\* The state of every connection before the supervisor accepts it.
InitSessions ==
    /\ db_lock = 0
    /\ conn = [s \in Sessions |-> "none"]
    /\ is_authenticated = [s \in Sessions |-> FALSE]
    /\ user_type = [s \in Sessions |-> "None"]
    /\ username = [s \in Sessions |-> ""]
    /\ pc = [s \in Sessions |-> "idle"]
    /\ request = [s \in Sessions |-> NoRequest]
    /\ frame = [s \in Sessions |-> NoFrame]
    /\ response = [s \in Sessions |-> NoResponse]

\* main: init_db on a fresh machine, then the accept loop.
Init == db = FreshDb /\ InitSessions

(***************************************************************************)
(* The connection supervisor and the end of a connection.                  *)
(***************************************************************************)
\* main's accept loop starts handle_client on a new connection.
Accept(s) ==
    /\ conn[s] = "none"
    /\ conn' = [conn EXCEPT ![s] = "open"]
    /\ UNCHANGED <<db, db_lock, session_vars, pc, request, frame, response>>

\* The end of a thread whose authenticated flag is one global of the module:
\* it clears the flag of every session.
EndSession_Global(s) ==
    /\ conn' = [conn EXCEPT ![s] = "closed"]
    /\ is_authenticated' = [t \in Sessions |-> FALSE]
    /\ user_type' = [user_type EXCEPT ![s] = "None"]
    /\ username' = [username EXCEPT ![s] = ""]
    /\ pc' = [pc EXCEPT ![s] = "done"]
    /\ request' = [request EXCEPT ![s] = NoRequest]
    /\ frame' = [frame EXCEPT ![s] = NoFrame]
    /\ response' = [response EXCEPT ![s] = NoResponse]
    /\ UNCHANGED <<db, db_lock>>

\* The end of handle_client: conn.close() in the finally clause, and the
\* thread's locals are gone with the thread.
EndSession(s) ==
    /\ conn' = [conn EXCEPT ![s] = "closed"]
    /\ is_authenticated' = [is_authenticated EXCEPT ![s] = FALSE]
    /\ user_type' = [user_type EXCEPT ![s] = "None"]
    /\ username' = [username EXCEPT ![s] = ""]
    /\ pc' = [pc EXCEPT ![s] = "done"]
    /\ request' = [request EXCEPT ![s] = NoRequest]
    /\ frame' = [frame EXCEPT ![s] = NoFrame]
    /\ response' = [response EXCEPT ![s] = NoResponse]
    /\ UNCHANGED <<db, db_lock>>

\* conn.recv returns no data (or the connection is reset): the loop ends.
Disconnect(s) ==
    /\ conn[s] = "open"
    /\ pc[s] = "idle"
    /\ EndSession(s)

\* The loop without the break: the thread goes back to recv after a logout.
LogoutBreak_Reads(s) ==
    /\ conn[s] = "open"
    /\ pc[s] = "logout_break"
    /\ pc' = [pc EXCEPT ![s] = "idle"]
    /\ UNCHANGED <<db, db_lock, conn, session_vars, request, frame, response>>

\* The break that follows the response to a successful logout.
LogoutBreak(s) ==
    /\ conn[s] = "open"
    /\ pc[s] = "logout_break"
    /\ EndSession(s)

\* The client closes its end while the handler thread serves its request:
\* the thread notices nothing before it is back in recv.
ClientCloses(s) ==
    /\ conn[s] = "open"
    /\ pc[s] \notin {"idle", "logout_break", "done"}
    /\ conn' = [conn EXCEPT ![s] = "peer_closed"]
    /\ UNCHANGED <<db, db_lock, session_vars, pc, request, frame, response>>

\* conn.recv on a connection the client has closed: no data, or
\* ConnectionResetError; either way the thread ends.
RecvClosed(s) ==
    /\ conn[s] = "peer_closed"
    /\ pc[s] = "idle"
    /\ EndSession(s)

(***************************************************************************)
(* How a handler step ends: with the response sent and the thread back in  *)
(* recv, or with the thread before its next db_execute call.               *)
(***************************************************************************)
Reply(s, resp) ==
    /\ response' = [response EXCEPT ![s] = resp]
    /\ pc' = [pc EXCEPT ![s] = "idle"]
    /\ frame' = [frame EXCEPT ![s] = NoFrame]

Goto(s, label, locals) ==
    /\ response' = [response EXCEPT ![s] = NoResponse]
    /\ pc' = [pc EXCEPT ![s] = label]
    /\ frame' = [frame EXCEPT ![s] = locals]

\* data.get(key): the field, or None (here the empty string, which the
\* handlers treat alike) when the request carries no such field.
Get(data, key) == IF key \in DOMAIN data THEN data[key] ELSE ""

\* The same for a field that holds a descriptor.
GetSeq(data, key) == IF key \in DOMAIN data THEN data[key] ELSE <<>>

Has(data, key) == key \in DOMAIN data

(***************************************************************************)
(* handle_login_student and handle_login_admin: the credentials read, then *)
(* the read of the data the success response carries.                      *)
(***************************************************************************)
handle_login_student(s, data) ==
    IF Get(data, "username") = "" \/ Get(data, "password") = ""
    THEN Reply(s, Error("Username and password required", <<>>))
    ELSE IF StudentCredentialsOk(db, data.username, data.password)
         THEN Goto(s, "login_student_courses", [username |-> data.username])
         ELSE Reply(s, Error("Invalid credentials", <<>>))

handle_login_admin(s, data) ==
    IF Get(data, "username") = "" \/ Get(data, "password") = ""
    THEN Reply(s, Error("Username and password required", <<>>))
    ELSE IF AdminCredentialsOk(db, data.username, data.password)
         THEN Goto(s, "login_admin_courses", [username |-> data.username])
         ELSE Reply(s, Error("Invalid credentials", <<>>))

\* get_student_registered_courses in handle_login_student, and the
\* assignments of handle_client on the success response.
LoginStudentCourses(s) ==
    /\ pc[s] = "login_student_courses"
    /\ Reply(s, SuccessData("registered_courses",
                 get_student_registered_courses(db, frame[s].username)))
    /\ is_authenticated' = [is_authenticated EXCEPT ![s] = TRUE]
    /\ user_type' = [user_type EXCEPT ![s] = "student"]
    /\ username' = [username EXCEPT ![s] = request[s].data.username]
    /\ UNCHANGED <<db, db_lock, conn, request>>

\* get_all_courses_details in handle_login_admin, and the assignments of
\* handle_client on the success response.
LoginAdminCourses(s) ==
    /\ pc[s] = "login_admin_courses"
    /\ Reply(s, SuccessData("courses", get_all_courses_details(db)))
    /\ is_authenticated' = [is_authenticated EXCEPT ![s] = TRUE]
    /\ user_type' = [user_type EXCEPT ![s] = "admin"]
    /\ username' = [username EXCEPT ![s] = request[s].data.username]
    /\ UNCHANGED <<db, db_lock, conn, request>>

(***************************************************************************)
(* The read-only handlers: one db_execute call each.                       *)
(***************************************************************************)
handle_list_courses_student(s, data) ==
    Reply(s, SuccessData("courses", get_all_courses_details(db)))

handle_list_courses_admin(s, data) ==
    Reply(s, SuccessData("courses", get_all_courses_details(db)))

\* The handler that believes the request: it reads the courses of the
\* username in the data when there is one.
handle_my_courses_FromData(s, data) ==
    Reply(s, SuccessData("registered_courses",
              get_student_registered_courses(db,
                  IF Has(data, "username") THEN data.username
                  ELSE username[s])))

handle_my_courses(s, data) ==
    Reply(s, SuccessData("registered_courses",
              get_student_registered_courses(db, username[s])))

(***************************************************************************)
(* handle_register_course: three reads, each followed by its checks, then  *)
(* the INSERT under db_lock.                                               *)
(***************************************************************************)
\* Checks 1 and 2 on the course row read first.
handle_register_course(s, data) ==
    LET course_name == Get(data, "course_name")
        course == SelectCourse(db, course_name)
    IN
    IF course_name = ""
    THEN Reply(s, Error("Course name required", <<>>))
    ELSE IF course = None
    THEN Reply(s, Error("Course '{course_name}' not found", <<course_name>>))
    ELSE IF course.remaining_seats <= 0
    THEN Reply(s, Error("Course '{course_name}' is full", <<course_name>>))
    ELSE Goto(s, "register_existing",
              [course_name |-> course_name, schedule |-> course.schedule])

\* The handler without check 3: the pair is not looked up.
RegisterExisting_Skip(s) ==
    /\ pc[s] = "register_existing"
    /\ Goto(s, "register_courses", frame[s])
    /\ UNCHANGED <<db, db_lock, conn, session_vars, request>>

\* Check 3 on the read of the (student, course) pair.
RegisterExisting(s) ==
    /\ pc[s] = "register_existing"
    /\ IF SelectRegistration(db, username[s], frame[s].course_name)
       THEN Reply(s, Error("You are already registered for '{course_name}'",
                           <<frame[s].course_name>>))
       ELSE Goto(s, "register_courses", frame[s])
    /\ UNCHANGED <<db, db_lock, conn, session_vars, request>>

\* The position of the first registered course whose schedule overlaps the
\* new one, 0 when there is none.
RECURSIVE FirstConflict(_, _, _)
FirstConflict(new_course_schedule, registered_courses, i) ==
    IF i > Len(registered_courses) THEN 0
    ELSE IF check_schedule_overlap(new_course_schedule,
                                   registered_courses[i].schedule)
         THEN i
         ELSE FirstConflict(new_course_schedule, registered_courses, i + 1)

\* Check 4 with '>' for '>=': a student at the limit passes it.
RegisterCourses_OffByOne(s) ==
    /\ pc[s] = "register_courses"
    /\ LET registered_courses ==
               get_student_registered_courses(db, username[s])
           k == FirstConflict(frame[s].schedule, registered_courses, 1)
       IN
       IF Len(registered_courses) > MAX_COURSES_PER_STUDENT
       THEN Reply(s, Error("Cannot register for more than {MAX_COURSES_PER_STUDENT} courses",
                           <<>>))
       ELSE IF k # 0
       THEN Reply(s, Error("Schedule conflict with '{name}' ({schedule})",
                           <<registered_courses[k].name,
                             registered_courses[k].schedule>>))
       ELSE Goto(s, "register_acquire", frame[s])
    /\ UNCHANGED <<db, db_lock, conn, session_vars, request>>

\* Checks 4 and 5 in the other order: the conflict is looked for first.
RegisterCourses_ConflictFirst(s) ==
    /\ pc[s] = "register_courses"
    /\ LET registered_courses ==
               get_student_registered_courses(db, username[s])
           k == FirstConflict(frame[s].schedule, registered_courses, 1)
       IN
       IF k # 0
       THEN Reply(s, Error("Schedule conflict with '{name}' ({schedule})",
                           <<registered_courses[k].name,
                             registered_courses[k].schedule>>))
       ELSE IF Len(registered_courses) >= MAX_COURSES_PER_STUDENT
       THEN Reply(s, Error("Cannot register for more than {MAX_COURSES_PER_STUDENT} courses",
                           <<>>))
       ELSE Goto(s, "register_acquire", frame[s])
    /\ UNCHANGED <<db, db_lock, conn, session_vars, request>>

\* Check 5 over the rows in the reverse order: the last overlapping course
\* of the list is the one named.
RegisterCourses_LastConflict(s) ==
    /\ pc[s] = "register_courses"
    /\ LET registered_courses ==
               get_student_registered_courses(db, username[s])
           over == {i \in 1..Len(registered_courses) :
                      check_schedule_overlap(frame[s].schedule,
                                             registered_courses[i].schedule)}
           k == IF over = {} THEN 0
                ELSE CHOOSE i \in over : \A j \in over : j <= i
       IN
       IF Len(registered_courses) >= MAX_COURSES_PER_STUDENT
       THEN Reply(s, Error("Cannot register for more than {MAX_COURSES_PER_STUDENT} courses",
                           <<>>))
       ELSE IF k # 0
       THEN Reply(s, Error("Schedule conflict with '{name}' ({schedule})",
                           <<registered_courses[k].name,
                             registered_courses[k].schedule>>))
       ELSE Goto(s, "register_acquire", frame[s])
    /\ UNCHANGED <<db, db_lock, conn, session_vars, request>>

\* Checks 4 and 5 on the read of the student's registered courses.
RegisterCourses(s) ==
    /\ pc[s] = "register_courses"
    /\ LET registered_courses ==
               get_student_registered_courses(db, username[s])
           k == FirstConflict(frame[s].schedule, registered_courses, 1)
       IN
       IF Len(registered_courses) >= MAX_COURSES_PER_STUDENT
       THEN Reply(s, Error("Cannot register for more than {MAX_COURSES_PER_STUDENT} courses",
                           <<>>))
       ELSE IF k # 0
       THEN Reply(s, Error("Schedule conflict with '{name}' ({schedule})",
                           <<registered_courses[k].name,
                             registered_courses[k].schedule>>))
       ELSE Goto(s, "register_acquire", frame[s])
    /\ UNCHANGED <<db, db_lock, conn, session_vars, request>>

\* Step 6 without the rollback: the refused row stays in the table.
RegisterInsert_NoRollback(s) ==
    /\ pc[s] = "register_insert"
    /\ db_lock = s
    /\ db' = InsertRegistration(db, username[s], frame[s].course_name)
    /\ IF InsertRegistrationOk(db, username[s], frame[s].course_name)
       THEN Reply(s, Success("Successfully registered for '{course_name}'",
                             <<frame[s].course_name>>))
       ELSE Reply(s, Error("Failed to register for course due to a database error",
                           <<>>))
    /\ db_lock' = 0
    /\ UNCHANGED <<conn, session_vars, request>>

\* db_execute with the release on its success path only: a refused INSERT
\* leaves db_lock with the thread.
RegisterInsert_LeaksLock(s) ==
    /\ pc[s] = "register_insert"
    /\ db_lock = s
    /\ IF InsertRegistrationOk(db, username[s], frame[s].course_name)
       THEN /\ db' = InsertRegistration(db, username[s], frame[s].course_name)
            /\ Reply(s, Success("Successfully registered for '{course_name}'",
                                <<frame[s].course_name>>))
            /\ db_lock' = 0
       ELSE /\ db' = db
            /\ Reply(s, Error("Failed to register for course due to a database error",
                              <<>>))
            /\ db_lock' = db_lock
    /\ UNCHANGED <<conn, session_vars, request>>

\* Step 6: the INSERT, its commit and the release of db_lock.
RegisterInsert(s) ==
    /\ pc[s] = "register_insert"
    /\ db_lock = s
    /\ IF InsertRegistrationOk(db, username[s], frame[s].course_name)
       THEN /\ db' = InsertRegistration(db, username[s], frame[s].course_name)
            /\ Reply(s, Success("Successfully registered for '{course_name}'",
                                <<frame[s].course_name>>))
       ELSE /\ db' = db
            /\ Reply(s, Error("Failed to register for course due to a database error",
                              <<>>))
    /\ db_lock' = 0
    /\ UNCHANGED <<conn, session_vars, request>>

(***************************************************************************)
(* handle_withdraw_course: the read of the pair, then the DELETE.          *)
(***************************************************************************)
handle_withdraw_course(s, data) ==
    LET course_name == Get(data, "course_name") IN
    IF course_name = ""
    THEN Reply(s, Error("Course name required", <<>>))
    ELSE IF ~SelectRegistration(db, username[s], course_name)
    THEN Reply(s, Error("You are not registered for '{course_name}'",
                        <<course_name>>))
    ELSE Goto(s, "withdraw_acquire", [course_name |-> course_name])

WithdrawDelete(s) ==
    /\ pc[s] = "withdraw_delete"
    /\ db_lock = s
    /\ db' = DeleteRegistration(db, username[s], frame[s].course_name)
    /\ Reply(s, Success("Successfully withdrew from '{course_name}'",
                        <<frame[s].course_name>>))
    /\ db_lock' = 0
    /\ UNCHANGED <<conn, session_vars, request>>

(***************************************************************************)
(* handle_create_course: validation, the read of the name, the INSERT.     *)
(***************************************************************************)
\* The handler without the validation of the descriptor.
handle_create_course_NoParse(s, data) ==
    LET name == Get(data, "name")
        schedule == GetSeq(data, "schedule")
    IN
    IF name = "" \/ schedule = <<>> \/ ~Has(data, "capacity")
    THEN Reply(s, Error("Course name, schedule, and capacity required", <<>>))
    ELSE IF data.capacity <= 0
    THEN Reply(s, Error("Invalid capacity value", <<>>))
    ELSE IF name \in DOMAIN db.courses
    THEN Reply(s, Error("Course '{name}' already exists", <<name>>))
    ELSE Goto(s, "create_acquire",
              [name |-> name, schedule |-> schedule,
               capacity |-> data.capacity])

handle_create_course(s, data) ==
    LET name == Get(data, "name")
        schedule == GetSeq(data, "schedule")
    IN
    IF name = "" \/ schedule = <<>> \/ ~Has(data, "capacity")
    THEN Reply(s, Error("Course name, schedule, and capacity required", <<>>))
    ELSE IF data.capacity <= 0
    THEN Reply(s, Error("Invalid capacity value", <<>>))
    ELSE IF parse_schedule(schedule) = None
    THEN Reply(s, Error("Invalid schedule format. Use Days HH:MM-HH:MM (e.g., MWF 10:00-11:00)",
                        <<>>))
    ELSE IF name \in DOMAIN db.courses
    THEN Reply(s, Error("Course '{name}' already exists", <<name>>))
    ELSE Goto(s, "create_acquire",
              [name |-> name, schedule |-> schedule,
               capacity |-> data.capacity])

CreateInsert(s) ==
    /\ pc[s] = "create_insert"
    /\ db_lock = s
    /\ IF InsertCourseOk(db, frame[s].name)
       THEN /\ db' = InsertCourse(db, frame[s].name, frame[s].schedule,
                                  frame[s].capacity)
            /\ Reply(s, Success("Course '{name}' created successfully",
                                <<frame[s].name>>))
       ELSE /\ db' = db
            /\ Reply(s, Error("Failed to create course due to a database error",
                              <<>>))
    /\ db_lock' = 0
    /\ UNCHANGED <<conn, session_vars, request>>

(***************************************************************************)
(* handle_update_course: the read of the capacity, the UPDATE.             *)
(***************************************************************************)
\* The comparison with '<' for '<=': a capacity equal to the current one passes.
handle_update_course_Less(s, data) ==
    LET name == Get(data, "name") IN
    IF name = "" \/ ~Has(data, "capacity")
    THEN Reply(s, Error("Course name and new capacity required", <<>>))
    ELSE IF name \notin DOMAIN db.courses
    THEN Reply(s, Error("Course '{name}' not found", <<name>>))
    ELSE IF data.capacity < db.courses[name].capacity
    THEN Reply(s, Error("New capacity ({new_capacity}) must be greater than current capacity ({current_capacity})",
                        <<data.capacity, db.courses[name].capacity>>))
    ELSE Goto(s, "update_acquire",
              [name |-> name, new_capacity |-> data.capacity])

handle_update_course(s, data) ==
    LET name == Get(data, "name") IN
    IF name = "" \/ ~Has(data, "capacity")
    THEN Reply(s, Error("Course name and new capacity required", <<>>))
    ELSE IF name \notin DOMAIN db.courses
    THEN Reply(s, Error("Course '{name}' not found", <<name>>))
    ELSE IF data.capacity <= db.courses[name].capacity
    THEN Reply(s, Error("New capacity ({new_capacity}) must be greater than current capacity ({current_capacity})",
                        <<data.capacity, db.courses[name].capacity>>))
    ELSE Goto(s, "update_acquire",
              [name |-> name, new_capacity |-> data.capacity])

\* db_execute without the release in its finally clause: the thread keeps
\* db_lock when it returns to handle_client.
UpdateWrite_KeepsLock(s) ==
    /\ pc[s] = "update_write"
    /\ db_lock = s
    /\ db' = UpdateCapacity(db, frame[s].name, frame[s].new_capacity)
    /\ Reply(s, Success("Capacity for course '{name}' updated to {new_capacity}",
                        <<frame[s].name, frame[s].new_capacity>>))
    /\ db_lock' = db_lock
    /\ UNCHANGED <<conn, session_vars, request>>

\* The UPDATE, its commit and the release of db_lock.
UpdateWrite(s) ==
    /\ pc[s] = "update_write"
    /\ db_lock = s
    /\ db' = UpdateCapacity(db, frame[s].name, frame[s].new_capacity)
    /\ Reply(s, Success("Capacity for course '{name}' updated to {new_capacity}",
                        <<frame[s].name, frame[s].new_capacity>>))
    /\ db_lock' = 0
    /\ UNCHANGED <<conn, session_vars, request>>

(***************************************************************************)
(* handle_add_student: the read of the username, the INSERT.               *)
(***************************************************************************)
handle_add_student(s, data) ==
    LET name == Get(data, "name")
        new_username == Get(data, "username")
        password == Get(data, "password")
    IN
    IF name = "" \/ new_username = "" \/ password = ""
    THEN Reply(s, Error("Student name, username, and password required", <<>>))
    ELSE IF new_username \in DOMAIN db.students
    THEN Reply(s, Error("Student username '{username}' already exists",
                        <<new_username>>))
    ELSE Goto(s, "add_student_acquire",
              [name |-> name, username |-> new_username,
               hashed_password |-> hash_password(password)])

AddStudentInsert(s) ==
    /\ pc[s] = "add_student_insert"
    /\ db_lock = s
    /\ IF InsertStudentOk(db, frame[s].username)
       THEN /\ db' = InsertStudent(db, frame[s].name, frame[s].username,
                                   frame[s].hashed_password)
            /\ Reply(s, Success("Student '{username}' added successfully",
                                <<frame[s].username>>))
       ELSE /\ db' = db
            /\ Reply(s, Error("Failed to add student due to a database error",
                              <<>>))
    /\ db_lock' = 0
    /\ UNCHANGED <<conn, session_vars, request>>

(***************************************************************************)
(* db_execute(commit=True) up to db_lock.acquire(): the thread waits until *)
(* the lock is free and takes it.                                          *)
(***************************************************************************)
AfterAcquire(label) ==
    CASE label = "register_acquire"    -> "register_insert"
      [] label = "withdraw_acquire"    -> "withdraw_delete"
      [] label = "create_acquire"      -> "create_insert"
      [] label = "update_acquire"      -> "update_write"
      [] label = "add_student_acquire" -> "add_student_insert"

AcquirePoints == {"register_acquire", "withdraw_acquire", "create_acquire",
                  "update_acquire", "add_student_acquire"}

DbAcquire(s) ==
    /\ pc[s] \in AcquirePoints
    /\ db_lock = 0
    /\ db_lock' = s
    /\ pc' = [pc EXCEPT ![s] = AfterAcquire(pc[s])]
    /\ UNCHANGED <<db, conn, session_vars, request, frame, response>>

(***************************************************************************)
(* handle_client: one request received and dispatched on the session's     *)
(* state, up to the handler's first db_execute call.                       *)
(***************************************************************************)
LoginActions == {"login_student", "login_admin"}

\* The branch without its final else: the course list is served to anyone.
handle_unauthenticated_open(s, action, data) ==
    /\ IF action \in LoginActions
       THEN IF action = "login_student"
            THEN handle_login_student(s, data)
            ELSE handle_login_admin(s, data)
       ELSE IF action = "list_courses_student"
            THEN handle_list_courses_student(s, data)
            ELSE Reply(s, Error("Authentication required", <<>>))
    /\ UNCHANGED <<session_vars, conn>>

\* The branch of an unauthenticated session.
handle_unauthenticated(s, action, data) ==
    /\ IF action \in LoginActions
       THEN IF action = "login_student"
            THEN handle_login_student(s, data)
            ELSE handle_login_admin(s, data)
       ELSE Reply(s, Error("Authentication required", <<>>))
    /\ UNCHANGED <<session_vars, conn>>

\* logout answered like any other command: the thread returns to recv.
Logout_NoBreak(s) ==
    /\ Reply(s, Success("Logged out", <<>>))
    /\ is_authenticated' = [is_authenticated EXCEPT ![s] = FALSE]
    /\ UNCHANGED <<user_type, username, conn>>

\* logout: the flag is cleared and the response sent; the break follows.
Logout(s) ==
    /\ response' = [response EXCEPT ![s] = Success("Logged out", <<>>)]
    /\ pc' = [pc EXCEPT ![s] = "logout_break"]
    /\ frame' = [frame EXCEPT ![s] = NoFrame]
    /\ is_authenticated' = [is_authenticated EXCEPT ![s] = FALSE]
    /\ UNCHANGED <<user_type, username, conn>>

\* The student branch with the admin's create_course among its commands.
handle_student_action_creates(s, action, data) ==
    IF action = "logout" THEN Logout(s)
    ELSE /\ CASE action = "list_courses_student" ->
                     handle_list_courses_student(s, data)
              [] action = "create_course" -> handle_create_course(s, data)
              [] action = "register_course" -> handle_register_course(s, data)
              [] action = "withdraw_course" -> handle_withdraw_course(s, data)
              [] action = "my_courses" -> handle_my_courses(s, data)
              [] OTHER -> Reply(s, Error("Invalid action for student", <<>>))
         /\ UNCHANGED <<session_vars, conn>>

\* The branch of a session authenticated as a student.
handle_student_action(s, action, data) ==
    IF action = "logout" THEN Logout(s)
    ELSE /\ CASE action = "list_courses_student" ->
                     handle_list_courses_student(s, data)
              [] action = "register_course" -> handle_register_course(s, data)
              [] action = "withdraw_course" -> handle_withdraw_course(s, data)
              [] action = "my_courses" -> handle_my_courses(s, data)
              [] OTHER -> Reply(s, Error("Invalid action for student", <<>>))
         /\ UNCHANGED <<session_vars, conn>>

\* The admin branch with the students' enrollment among its commands.
handle_admin_action_enrolls(s, action, data) ==
    IF action = "logout" THEN Logout(s)
    ELSE /\ CASE action = "list_courses_admin" ->
                     handle_list_courses_admin(s, data)
              [] action = "create_course" -> handle_create_course(s, data)
              [] action = "update_course" -> handle_update_course(s, data)
              [] action = "add_student" -> handle_add_student(s, data)
              [] action = "register_course" -> handle_register_course(s, data)
              [] OTHER -> Reply(s, Error("Invalid action for admin", <<>>))
         /\ UNCHANGED <<session_vars, conn>>

\* The branch of a session authenticated as the admin.
handle_admin_action(s, action, data) ==
    IF action = "logout" THEN Logout(s)
    ELSE /\ CASE action = "list_courses_admin" ->
                     handle_list_courses_admin(s, data)
              [] action = "create_course" -> handle_create_course(s, data)
              [] action = "update_course" -> handle_update_course(s, data)
              [] action = "add_student" -> handle_add_student(s, data)
              [] OTHER -> Reply(s, Error("Invalid action for admin", <<>>))
         /\ UNCHANGED <<session_vars, conn>>

handle_client(s, action, data) ==
    /\ conn[s] = "open"
    /\ pc[s] = "idle"
    /\ request' = [request EXCEPT ![s] = [action |-> action, data |-> data]]
    /\ IF ~is_authenticated[s]
       THEN handle_unauthenticated(s, action, data)
       ELSE IF user_type[s] = "student"
            THEN handle_student_action(s, action, data)
            ELSE IF user_type[s] = "admin"
                 THEN handle_admin_action(s, action, data)
                 ELSE /\ Reply(s, Error("Invalid action", <<>>))
                      /\ UNCHANGED <<session_vars, conn>>
    /\ UNCHANGED <<db, db_lock>>

(***************************************************************************)
(* Frames that are no request: the except clauses inside handle_client's   *)
(* loop answer them and the thread goes back to recv.                      *)
(***************************************************************************)
\* The malformed frame answered and the loop left, as after a logout.
InvalidJson_Breaks(s) ==
    /\ conn[s] = "open"
    /\ pc[s] = "idle"
    /\ request' = [request EXCEPT ![s] = NoRequest]
    /\ response' = [response EXCEPT ![s] = Error("Invalid JSON format", <<>>)]
    /\ pc' = [pc EXCEPT ![s] = "logout_break"]
    /\ frame' = [frame EXCEPT ![s] = NoFrame]
    /\ UNCHANGED <<db, db_lock, conn, session_vars>>

\* json.loads raises JSONDecodeError on the received bytes.
InvalidJson(s) ==
    /\ conn[s] = "open"
    /\ pc[s] = "idle"
    /\ request' = [request EXCEPT ![s] = NoRequest]
    /\ Reply(s, Error("Invalid JSON format", <<>>))
    /\ UNCHANGED <<db, db_lock, conn, session_vars>>

\* The frame is JSON but no object: request.get raises AttributeError, which
\* the clause for Exception answers.
NotAnObject(s) ==
    /\ conn[s] = "open"
    /\ pc[s] = "idle"
    /\ request' = [request EXCEPT ![s] = NoRequest]
    /\ Reply(s, Error("An internal server error occurred", <<>>))
    /\ UNCHANGED <<db, db_lock, conn, session_vars>>

(***************************************************************************)
(* The requests clients send: the descriptors, names and passwords of the  *)
(* model's scenarios.                                                      *)
(***************************************************************************)
\* "MWF 10:00-11:00"
MWF_10_11 == <<"M", "W", "F", " ", "1", "0", ":", "0", "0", "-",
               "1", "1", ":", "0", "0">>

\* "MW 10:30-11:30"
MW_1030_1130 == <<"M", "W", " ", "1", "0", ":", "3", "0", "-",
                  "1", "1", ":", "3", "0">>

\* "TR 10:00-11:00"
TR_10_11 == <<"T", "R", " ", "1", "0", ":", "0", "0", "-",
              "1", "1", ":", "0", "0">>

\* "MWF 25:00-26:00"
MWF_25_26 == <<"M", "W", "F", " ", "2", "5", ":", "0", "0", "-",
               "2", "6", ":", "0", "0">>

\* "MWF 09:00-09:00"
MWF_09_09 == <<"M", "W", "F", " ", "0", "9", ":", "0", "0", "-",
               "0", "9", ":", "0", "0">>

Req(action, data) == [action |-> action, data |-> data]

LoginRequests(action, usernames, passwords) ==
    {Req(action, [username |-> u, password |-> p]) :
        u \in usernames, p \in passwords}

CourseRequests(action, names) ==
    {Req(action, [course_name |-> c]) : c \in names}

PlainRequests(actions) == {Req(a, NoData) : a \in actions}

CreateRequests(names, schedules, capacities) ==
    {Req("create_course", [name |-> n, schedule |-> sc, capacity |-> k]) :
        n \in names, sc \in schedules, k \in capacities}

UpdateRequests(names, capacities) ==
    {Req("update_course", [name |-> n, capacity |-> k]) :
        n \in names, k \in capacities}

AddStudentRequests(usernames) ==
    {Req("add_student", [name |-> "Student", username |-> u, password |-> "pw"]) :
        u \in usernames}

\* The requests of the run that starts on a fresh machine.
Requests ==
    LoginRequests("login_student", {"s1"}, {"pw", "bad"})
    \cup {Req("login_student", [username |-> "s1"])}
    \cup LoginRequests("login_admin", {ADMIN_USERNAME}, {ADMIN_PASSWORD, ""})
    \cup PlainRequests({"list_courses_student", "list_courses_admin",
                        "my_courses", "logout", "refresh"})
    \cup CourseRequests("register_course", {"CS101"})
    \cup CourseRequests("withdraw_course", {"CS101"})
    \cup CreateRequests({"CS101"}, {MWF_10_11}, 0..1)
    \cup CreateRequests({"CS101"}, {MWF_09_09, MWF_25_26}, {1})
    \cup UpdateRequests({"CS101"}, 2..MaxCap)
    \cup AddStudentRequests({"s1"})

\* The steps every handler thread takes after its first db_execute call.
Continue(s) ==
    \/ LoginStudentCourses(s)
    \/ LoginAdminCourses(s)
    \/ RegisterExisting(s)
    \/ RegisterCourses(s)
    \/ DbAcquire(s)
    \/ RegisterInsert(s)
    \/ WithdrawDelete(s)
    \/ CreateInsert(s)
    \/ UpdateWrite(s)
    \/ AddStudentInsert(s)

Next ==
    \E s \in Sessions :
        \/ Accept(s)
        \/ Disconnect(s)
        \/ \E r \in Requests : handle_client(s, r.action, r.data)
        \/ InvalidJson(s)
        \/ NotAnObject(s)
        \/ LogoutBreak(s)
        \/ Continue(s)
        \/ ClientCloses(s)
        \/ RecvClosed(s)

Spec == Init /\ [][Next]_vars

(***************************************************************************)
(* Enrollment on a persisted store.  registrar.db outlives the server:     *)
(* init_db creates only what is missing, so a run starts on whatever an    *)
(* earlier run committed.  SeedDb is the store after the admin added the   *)
(* students s1 and s2, created CS101 (one seat), PHYS1 (two seats, its     *)
(* schedule overlaps that of CS101) and CHEM1 (one seat, no common day),   *)
(* and s2 registered for CHEM1.                                            *)
(***************************************************************************)
StudentRow(password) ==
    [name |-> "Student", password_hash |-> hash_password(password)]

CourseRow(schedule, capacity) == [schedule |-> schedule, capacity |-> capacity]

SeedCourses ==
    [c \in {"CS101", "PHYS1", "CHEM1"} |->
        CASE c = "CS101" -> CourseRow(MWF_10_11, 1)
          [] c = "PHYS1" -> CourseRow(MW_1030_1130, 2)
          [] c = "CHEM1" -> CourseRow(TR_10_11, 1)]

SeedDb ==
    [admins        |-> FreshDb.admins,
     students      |-> [u \in {"s1", "s2"} |-> StudentRow("pw")],
     courses       |-> SeedCourses,
     registrations |-> SetToBag({<<"s2", "CHEM1">>})]

InitEnroll == db = SeedDb /\ InitSessions

\* The clients of client_student.py and client_admin.py: they send login
\* requests until one succeeds, and the menu's requests after that.
ClientSends(s, r) == (r.action \in LoginActions) <=> ~is_authenticated[s]

EnrollRequests ==
    LoginRequests("login_student", {"s1", "s2"}, {"pw"})
    \cup CourseRequests("register_course", {"CS101", "PHYS1"})
    \cup CourseRequests("withdraw_course", {"CS101", "CHEM1"})

NextEnroll ==
    \E s \in Sessions :
        \/ Accept(s)
        \/ \E r \in EnrollRequests :
               ClientSends(s, r) /\ handle_client(s, r.action, r.data)
        \/ LoginStudentCourses(s)
        \/ RegisterExisting(s)
        \/ RegisterCourses(s)
        \/ DbAcquire(s)
        \/ RegisterInsert(s)
        \/ WithdrawDelete(s)

SpecEnroll == InitEnroll /\ [][NextEnroll]_vars

(***************************************************************************)
(* The life of a session on the same store, with clients that send what    *)
(* they like in any state: logins with a right, a wrong and a missing       *)
(* password and with an unknown username, logout, an action the server     *)
(* does not know, the students' listing, a student's and an admin's        *)
(* mutating command; and that disconnect when they like.                   *)
(***************************************************************************)
GateRequests ==
    LoginRequests("login_student", {"s1"}, {"pw", "bad"})
    \cup LoginRequests("login_student", {"s9"}, {"pw"})
    \cup {Req("login_student", [username |-> "s1"])}
    \cup LoginRequests("login_admin", {ADMIN_USERNAME}, {ADMIN_PASSWORD})
    \cup PlainRequests({"logout", "refresh", "list_courses_student"})
    \cup CourseRequests("register_course", {"CS101"})
    \cup CreateRequests({"MATH1"}, {TR_10_11}, {1})

NextGate ==
    \E s \in Sessions :
        \/ Accept(s)
        \/ Disconnect(s)
        \/ \E r \in GateRequests : handle_client(s, r.action, r.data)
        \/ LogoutBreak(s)
        \/ LoginStudentCourses(s)
        \/ LoginAdminCourses(s)
        \/ RegisterExisting(s)
        \/ RegisterCourses(s)
        \/ DbAcquire(s)
        \/ RegisterInsert(s)
        \/ CreateInsert(s)

SpecGate == InitEnroll /\ [][NextGate]_vars

(***************************************************************************)
(* Logout on the same store: clients that log in, register and log out in  *)
(* any state, under the scheduler's guarantee that a handler thread that   *)
(* has sent the logout response goes on to its break and its finally       *)
(* clause.                                                                 *)
(***************************************************************************)
LogoutRequests ==
    LoginRequests("login_student", {"s1"}, {"pw"})
    \cup LoginRequests("login_admin", {ADMIN_USERNAME}, {ADMIN_PASSWORD})
    \cup PlainRequests({"logout"})
    \cup CourseRequests("register_course", {"CS101"})

NextLogout ==
    \E s \in Sessions :
        \/ Accept(s)
        \/ Disconnect(s)
        \/ \E r \in LogoutRequests : handle_client(s, r.action, r.data)
        \/ LogoutBreak(s)
        \/ LoginStudentCourses(s)
        \/ LoginAdminCourses(s)
        \/ RegisterExisting(s)
        \/ RegisterCourses(s)
        \/ DbAcquire(s)
        \/ RegisterInsert(s)

SpecLogout ==
    /\ InitEnroll
    /\ [][NextLogout]_vars
    /\ \A s \in Sessions : WF_vars(LogoutBreak(s))

(***************************************************************************)
(* The catalogue built on a fresh machine: admin clients that create CS101 *)
(* with an accepted and with rejected descriptors and capacities, and      *)
(* raise its capacity.                                                     *)
(***************************************************************************)
AdminRequests ==
    LoginRequests("login_admin", {ADMIN_USERNAME}, {ADMIN_PASSWORD})
    \cup CreateRequests({"CS101"}, {MWF_10_11}, 0..1)
    \cup CreateRequests({"CS101"}, {MWF_09_09, MWF_25_26}, {1})
    \cup UpdateRequests({"CS101"}, 2..MaxCap)

NextAdmin ==
    \E s \in Sessions :
        \/ Accept(s)
        \/ \E r \in AdminRequests :
               ClientSends(s, r) /\ handle_client(s, r.action, r.data)
        \/ LoginAdminCourses(s)
        \/ DbAcquire(s)
        \/ CreateInsert(s)
        \/ UpdateWrite(s)

SpecAdmin == Init /\ [][NextAdmin]_vars

(***************************************************************************)
(* Capacity updates on the persisted store: admin clients that send        *)
(* update_course for CS101 (capacity 1) and for MATH1, which the store     *)
(* does not hold, with every capacity from 1 up.                           *)
(***************************************************************************)
UpdateOnlyRequests ==
    LoginRequests("login_admin", {ADMIN_USERNAME}, {ADMIN_PASSWORD})
    \cup UpdateRequests({"CS101", "MATH1"}, 1..MaxCap)

NextUpdate ==
    \E s \in Sessions :
        \/ Accept(s)
        \/ \E r \in UpdateOnlyRequests :
               ClientSends(s, r) /\ handle_client(s, r.action, r.data)
        \/ LoginAdminCourses(s)
        \/ DbAcquire(s)
        \/ UpdateWrite(s)

SpecUpdate == InitEnroll /\ [][NextUpdate]_vars

(***************************************************************************)
(* Listings on the persisted store: a student and an admin client that     *)
(* list the courses while s1 registers for and withdraws from CS101 and    *)
(* the admin raises its capacity and creates MATH1.                        *)
(***************************************************************************)
ListingRequests ==
    LoginRequests("login_student", {"s1"}, {"pw"})
    \cup LoginRequests("login_admin", {ADMIN_USERNAME}, {ADMIN_PASSWORD})
    \cup PlainRequests({"list_courses_student", "list_courses_admin"})
    \cup CourseRequests("register_course", {"CS101"})
    \cup CourseRequests("withdraw_course", {"CS101"})
    \cup CreateRequests({"MATH1"}, {TR_10_11}, {1})
    \cup UpdateRequests({"CS101"}, {2})

NextListing ==
    \E s \in Sessions :
        \/ Accept(s)
        \/ \E r \in ListingRequests :
               ClientSends(s, r) /\ handle_client(s, r.action, r.data)
        \/ LoginStudentCourses(s)
        \/ LoginAdminCourses(s)
        \/ RegisterExisting(s)
        \/ RegisterCourses(s)
        \/ DbAcquire(s)
        \/ RegisterInsert(s)
        \/ WithdrawDelete(s)
        \/ CreateInsert(s)
        \/ UpdateWrite(s)

SpecListing == InitEnroll /\ [][NextListing]_vars

(***************************************************************************)
(* Errors on the persisted store: clients that send, in any state of their *)
(* session, logins of s1 and of the admin, registrations for a             *)
(* course with a seat (CS101), one that overlaps it (PHYS1), a full one    *)
(* (CHEM1) and an unknown one (MATH1), a create_course with a descriptor   *)
(* that is refused, logout, and frames that are no request; and that       *)
(* disconnect when they like.                                              *)
(***************************************************************************)
ErrorRequests ==
    LoginRequests("login_student", {"s1"}, {"pw"})
    \cup LoginRequests("login_admin", {ADMIN_USERNAME}, {ADMIN_PASSWORD})
    \cup PlainRequests({"logout"})
    \cup CourseRequests("register_course", {"CS101", "PHYS1", "CHEM1", "MATH1"})
    \cup CreateRequests({"CS101"}, {MWF_25_26}, {1})

NextErrors ==
    \E s \in Sessions :
        \/ Accept(s)
        \/ Disconnect(s)
        \/ \E r \in ErrorRequests : handle_client(s, r.action, r.data)
        \/ InvalidJson(s)
        \/ NotAnObject(s)
        \/ LogoutBreak(s)
        \/ LoginStudentCourses(s)
        \/ LoginAdminCourses(s)
        \/ RegisterExisting(s)
        \/ RegisterCourses(s)
        \/ DbAcquire(s)
        \/ RegisterInsert(s)

SpecErrors == InitEnroll /\ [][NextErrors]_vars

(***************************************************************************)
(* The same store with clients that log in and then send one mutating      *)
(* request each.                                                           *)
(***************************************************************************)
MutatingActions == {"register_course", "withdraw_course", "create_course",
                    "update_course", "add_student"}

OnceRequests ==
    LoginRequests("login_student", {"s1", "s2", "s3"}, {"pw"})
    \cup LoginRequests("login_admin", {ADMIN_USERNAME}, {ADMIN_PASSWORD})
    \cup CourseRequests("register_course", {"CS101", "PHYS1", "MATH1"})
    \cup CourseRequests("withdraw_course", {"CHEM1"})
    \cup CreateRequests({"MATH1", "CS101"}, {TR_10_11}, {1})
    \cup UpdateRequests({"CS101"}, 2..MaxCap)
    \cup AddStudentRequests({"s2", "s3"})

NextOnce ==
    \E s \in Sessions :
        \/ Accept(s)
        \/ /\ request[s].action \notin MutatingActions
           /\ \E r \in OnceRequests :
                  ClientSends(s, r) /\ handle_client(s, r.action, r.data)
        \/ Continue(s)

SpecOnce == InitEnroll /\ [][NextOnce]_vars

(***************************************************************************)
(* Clients on the same store that log in, send one of the five mutating    *)
(* requests and may close their connection while it is being served.       *)
(***************************************************************************)
CloseRequests ==
    LoginRequests("login_student", {"s1", "s2"}, {"pw"})
    \cup LoginRequests("login_admin", {ADMIN_USERNAME}, {ADMIN_PASSWORD})
    \cup CourseRequests("register_course", {"PHYS1"})
    \cup CourseRequests("withdraw_course", {"CHEM1"})
    \cup CreateRequests({"MATH1"}, {TR_10_11}, {1})
    \cup UpdateRequests({"CS101"}, {2})
    \cup AddStudentRequests({"s3"})

NextClose ==
    \E s \in Sessions :
        \/ Accept(s)
        \/ /\ request[s].action \notin MutatingActions
           /\ \E r \in CloseRequests :
                  ClientSends(s, r) /\ handle_client(s, r.action, r.data)
        \/ Continue(s)
        \/ ClientCloses(s)
        \/ RecvClosed(s)

SpecClose == InitEnroll /\ [][NextClose]_vars

(***************************************************************************)
(* The same store with clients that send the five mutating requests in any *)
(* state of their session, logged in or not and whatever their role, one   *)
(* mutating request each.                                                  *)
(***************************************************************************)
RoleRequests ==
    LoginRequests("login_student", {"s2"}, {"pw"})
    \cup LoginRequests("login_admin", {ADMIN_USERNAME}, {ADMIN_PASSWORD})
    \cup CourseRequests("register_course", {"CS101"})
    \cup CourseRequests("withdraw_course", {"CHEM1"})
    \cup CreateRequests({"MATH1"}, {TR_10_11}, {1})
    \cup UpdateRequests({"CS101"}, 2..MaxCap)
    \cup AddStudentRequests({"s3"})

NextRoles ==
    \E s \in Sessions :
        \/ Accept(s)
        \/ /\ request[s].action \notin MutatingActions
           /\ \E r \in RoleRequests : handle_client(s, r.action, r.data)
        \/ Continue(s)

SpecRoles == InitEnroll /\ [][NextRoles]_vars

(***************************************************************************)
(* A store in which s1 holds four of six courses that meet on Monday in    *)
(* consecutive hours, and clients that register s1 for the other two.      *)
(***************************************************************************)
\* "M 0h:00-0(h+1):00" for h in 1..8
MondayHour(h) ==
    <<"M", " ", "0", Digits[h + 1], ":", "0", "0", "-",
      "0", Digits[h + 2], ":", "0", "0">>

LimitDb ==
    [admins        |-> FreshDb.admins,
     students      |-> [u \in {"s1"} |-> StudentRow("pw")],
     courses       |-> [c \in {CourseOrder[i] : i \in 1..6} |->
                           CourseRow(MondayHour(CHOOSE i \in 1..6 :
                                                    CourseOrder[i] = c), 2)],
     registrations |-> SetToBag({<<"s1", CourseOrder[i]>> : i \in 1..4})]

InitLimit == db = LimitDb /\ InitSessions

LimitRequests ==
    LoginRequests("login_student", {"s1"}, {"pw"})
    \cup CourseRequests("register_course", {"MATH1", "PHYS1"})

NextLimit ==
    \E s \in Sessions :
        \/ Accept(s)
        \/ \E r \in LimitRequests :
               ClientSends(s, r) /\ handle_client(s, r.action, r.data)
        \/ LoginStudentCourses(s)
        \/ RegisterExisting(s)
        \/ RegisterCourses(s)
        \/ DbAcquire(s)
        \/ RegisterInsert(s)

SpecLimit == InitLimit /\ [][NextLimit]_vars

(***************************************************************************)
(* A store in which s1 holds five courses that meet on Monday in           *)
(* consecutive hours.  PHYS1 (one seat) meets in the hour after them,      *)
(* STAT1 (two seats) in the hour of CHEM1.  The clients are sessions of    *)
(* s1 and of s2, who holds nothing.                                        *)
(***************************************************************************)
SixthDb ==
    [admins        |-> FreshDb.admins,
     students      |-> [u \in {"s1", "s2"} |-> StudentRow("pw")],
     courses       |-> [c \in {CourseOrder[i] : i \in 1..7} |->
                           LET i == CHOOSE i \in 1..7 : CourseOrder[i] = c IN
                           CASE i <= 5 -> CourseRow(MondayHour(i), 2)
                             [] i = 6  -> CourseRow(MondayHour(6), 1)
                             [] i = 7  -> CourseRow(MondayHour(1), 2)],
     registrations |-> SetToBag({<<"s1", CourseOrder[i]>> : i \in 1..5})]

InitSixth == db = SixthDb /\ InitSessions

SixthRequests ==
    LoginRequests("login_student", {"s1", "s2"}, {"pw"})
    \cup CourseRequests("register_course", {"PHYS1", "STAT1"})
    \cup CourseRequests("withdraw_course", {"CHEM1"})

NextSixth ==
    \E s \in Sessions :
        \/ Accept(s)
        \/ \E r \in SixthRequests :
               ClientSends(s, r) /\ handle_client(s, r.action, r.data)
        \/ LoginStudentCourses(s)
        \/ RegisterExisting(s)
        \/ RegisterCourses(s)
        \/ DbAcquire(s)
        \/ RegisterInsert(s)
        \/ WithdrawDelete(s)

SpecSixth == InitSixth /\ [][NextSixth]_vars

(***************************************************************************)
(* The store of the conflict scenario: MATH1 "MWF 10:00-11:00", PHYS1      *)
(* "MW 10:30-11:30" and CHEM1 "TR 10:00-11:00", two seats each; s1 holds   *)
(* MATH1.  The clients are sessions of s1.                                 *)
(***************************************************************************)
ConflictDb ==
    [admins        |-> FreshDb.admins,
     students      |-> [u \in {"s1"} |-> StudentRow("pw")],
     courses       |-> [c \in {"MATH1", "PHYS1", "CHEM1"} |->
                           CASE c = "MATH1" -> CourseRow(MWF_10_11, 2)
                             [] c = "PHYS1" -> CourseRow(MW_1030_1130, 2)
                             [] c = "CHEM1" -> CourseRow(TR_10_11, 2)],
     registrations |-> SetToBag({<<"s1", "MATH1">>})]

InitConflict == db = ConflictDb /\ InitSessions

ConflictRequests ==
    LoginRequests("login_student", {"s1"}, {"pw"})
    \cup CourseRequests("register_course", {"MATH1", "PHYS1", "CHEM1"})
    \cup CourseRequests("withdraw_course", {"MATH1"})

NextConflict ==
    \E s \in Sessions :
        \/ Accept(s)
        \/ \E r \in ConflictRequests :
               ClientSends(s, r) /\ handle_client(s, r.action, r.data)
        \/ LoginStudentCourses(s)
        \/ RegisterExisting(s)
        \/ RegisterCourses(s)
        \/ DbAcquire(s)
        \/ RegisterInsert(s)
        \/ WithdrawDelete(s)

SpecConflict == InitConflict /\ [][NextConflict]_vars

(***************************************************************************)
(* Overlap runs.  The store holds two courses, CHEM1 and CS101, with two   *)
(* seats each and with any two schedules of a bounded set: three day       *)
(* fields and every window between two of the half hours from 10:00 on.    *)
(* s1 holds CHEM1 and, on one connection, registers for CS101, which       *)
(* applies check_schedule_overlap to the two schedules.                    *)
(***************************************************************************)
\* "HH:MM" of a minute of the day.
TimeText(m) ==
    <<Digits[((m \div 60) \div 10) + 1], Digits[((m \div 60) % 10) + 1], ":",
      Digits[((m % 60) \div 10) + 1], Digits[((m % 60) % 10) + 1]>>

\* "<days> HH:MM-HH:MM"
Descriptor(days, start, end) ==
    days \o <<" ">> \o TimeText(start) \o <<"-">> \o TimeText(end)

DayFields == {<<"M">>, <<"M", "W">>, <<"T", "R">>}

TimePoints == {600 + 30 * k : k \in 0..NSlots}

Schedules ==
    {Descriptor(days, start, end) :
        days \in DayFields,
        start \in TimePoints \ {600 + 30 * NSlots},
        end \in TimePoints \ {600}}

ValidSchedules == {sc \in Schedules : parse_schedule(sc) # None}

OverlapDb(schedule1, schedule2) ==
    [admins        |-> FreshDb.admins,
     students      |-> [u \in {"s1"} |-> StudentRow("pw")],
     courses       |-> [c \in {"CHEM1", "CS101"} |->
                           IF c = "CHEM1" THEN CourseRow(schedule1, 2)
                           ELSE CourseRow(schedule2, 2)],
     registrations |-> SetToBag({<<"s1", "CHEM1">>})]

InitOverlap ==
    /\ \E schedule1, schedule2 \in ValidSchedules :
           db = OverlapDb(schedule1, schedule2)
    /\ InitSessions

OverlapRequests ==
    LoginRequests("login_student", {"s1"}, {"pw"})
    \cup CourseRequests("register_course", {"CS101"})

\* The connection of the run's one client.
FirstSession == CHOOSE s \in Sessions : \A t \in Sessions : s <= t

NextOverlap ==
    \E s \in {FirstSession} :
        \/ Accept(s)
        \/ \E r \in OverlapRequests :
               ClientSends(s, r) /\ handle_client(s, r.action, r.data)
        \/ LoginStudentCourses(s)
        \/ RegisterExisting(s)
        \/ RegisterCourses(s)
        \/ DbAcquire(s)
        \/ RegisterInsert(s)

SpecOverlap == InitOverlap /\ [][NextOverlap]_vars

(***************************************************************************)
(* Parser runs.  On a fresh machine one admin client sends create_course   *)
(* for CS101 with the descriptors of a bounded set: day fields in upper,   *)
(* lower and mixed case, with an unknown letter and with a digit, each     *)
(* with time fields that are right, equal, inverted, out of range or       *)
(* malformed, and descriptors with a missing field, an extra field, extra  *)
(* whitespace, a tab and the fields swapped.  handle_create_course applies  *)
(* parse_schedule to each.                                                 *)
(***************************************************************************)
\* "HH:MM-HH:MM"
TimeField(start, end) == TimeText(start) \o <<"-">> \o TimeText(end)

DayInputs ==
    {<<"M", "W", "F">>, <<"m", "w", "f">>, <<"t", "R">>, <<"M", "X">>,
     <<"M", "1">>}

TimeInputs ==
    {TimeField(600, 660), TimeField(600, 600), TimeField(660, 600),
     TimeField(0, 1439), TimeField(1500, 1560), TimeField(600, 1440),
     TimeText(600),
     TimeField(600, 660) \o <<"-">> \o TimeText(720),
     <<"9", ":", "0", "0", "-", "1", "0", ":", "5">>,
     <<"1", "0", ":", "6", "0", "-", "1", "1", ":", "0", "0">>,
     <<"1", "0", "0", "0", "-", "1", "1", "0", "0">>,
     <<"1", "0", ":", "0", "0", "0", "-", "1", "1", ":", "0", "0">>}

ParserInputs ==
    {days \o <<" ">> \o time : days \in DayInputs, time \in TimeInputs}
    \cup {<<"M", "W", "F">>,
          MWF_10_11 \o <<" ", "x">>,
          <<" ">> \o <<"M", "W", "F", " ", " ">> \o TimeField(600, 660) \o <<" ">>,
          <<"M", "W", "F", "\t">> \o TimeField(600, 660),
          TimeField(600, 660) \o <<" ", "M", "W", "F">>}

ParserRequests ==
    LoginRequests("login_admin", {ADMIN_USERNAME}, {ADMIN_PASSWORD})
    \cup CreateRequests({"CS101"}, ParserInputs, {1})

NextParser ==
    \E s \in {FirstSession} :
        \/ Accept(s)
        \/ \E r \in ParserRequests :
               ClientSends(s, r) /\ handle_client(s, r.action, r.data)
        \/ LoginAdminCourses(s)
        \/ DbAcquire(s)
        \/ CreateInsert(s)

SpecParser == Init /\ [][NextParser]_vars

(***************************************************************************)
(* The whole menu on the persisted store: sessions of s2, who holds CHEM1, *)
(* and of the admin that send every command of their menus: the listings,  *)
(* registrations for a course with a seat (CS101), one that overlaps it    *)
(* (PHYS1) and a full one (CHEM1), the withdrawal from CS101, create,      *)
(* update, add_student and logout; one mutating request each.              *)
(***************************************************************************)
MenuRequests ==
    LoginRequests("login_student", {"s2"}, {"pw"})
    \cup LoginRequests("login_admin", {ADMIN_USERNAME}, {ADMIN_PASSWORD})
    \cup PlainRequests({"list_courses_student", "my_courses", "logout"})
    \cup CourseRequests("register_course", {"CS101", "PHYS1", "CHEM1"})
    \cup CourseRequests("withdraw_course", {"CS101"})
    \cup CreateRequests({"MATH1"}, {TR_10_11}, {1})
    \cup UpdateRequests({"CS101"}, {2})
    \cup AddStudentRequests({"s3"})

NextMenu ==
    \E s \in Sessions :
        \/ Accept(s)
        \/ /\ request[s].action \notin MutatingActions
           /\ \E r \in MenuRequests :
                  ClientSends(s, r) /\ handle_client(s, r.action, r.data)
        \/ LogoutBreak(s)
        \/ Continue(s)

SpecMenu == InitEnroll /\ [][NextMenu]_vars

(***************************************************************************)
(* Requests handled one at a time on the store of the sixth course: a      *)
(* client sends a request only when no handler thread is serving one.  The *)
(* sessions of s1 and s2 register for a course s1 holds (CHEM1), one that  *)
(* overlaps it (STAT1) and one the store does not hold (BIOL1), and        *)
(* withdraw from CHEM1.                                                    *)
(***************************************************************************)
SerialRequests ==
    LoginRequests("login_student", {"s1", "s2"}, {"pw"})
    \cup CourseRequests("register_course", {"CHEM1", "STAT1", "BIOL1"})
    \cup CourseRequests("withdraw_course", {"CHEM1"})

\* No handler thread is between the receipt of a request and its response.
Quiet == \A t \in Sessions : pc[t] \in {"idle", "done"}

NextSerial ==
    \E s \in Sessions :
        \/ Accept(s)
        \/ /\ Quiet
           /\ \E r \in SerialRequests :
                  ClientSends(s, r) /\ handle_client(s, r.action, r.data)
        \/ LoginStudentCourses(s)
        \/ RegisterExisting(s)
        \/ RegisterCourses(s)
        \/ DbAcquire(s)
        \/ RegisterInsert(s)
        \/ WithdrawDelete(s)

SpecSerial == InitSixth /\ [][NextSerial]_vars

(***************************************************************************)
(* The store of the conflict report: s1 holds CHEM1 "M 11:00-12:00", ECON1 *)
(* "W 10:30-11:00" and PHYS1 "M 10:00-11:00", no two of which overlap, and *)
(* MATH1 "MW 10:30-11:30" overlaps all three.  The sessions of s1 register *)
(* for MATH1 while they withdraw from CHEM1 and ECON1 and register for     *)
(* CHEM1 again.                                                            *)
(***************************************************************************)
ReportDb ==
    [admins        |-> FreshDb.admins,
     students      |-> [u \in {"s1"} |-> StudentRow("pw")],
     courses       |-> [c \in {"CHEM1", "ECON1", "MATH1", "PHYS1"} |->
                           CASE c = "CHEM1" ->
                                    CourseRow(Descriptor(<<"M">>, 660, 720), 2)
                             [] c = "ECON1" ->
                                    CourseRow(Descriptor(<<"W">>, 630, 660), 2)
                             [] c = "MATH1" ->
                                    CourseRow(Descriptor(<<"M", "W">>, 630, 690), 2)
                             [] c = "PHYS1" ->
                                    CourseRow(Descriptor(<<"M">>, 600, 660), 2)],
     registrations |-> SetToBag({<<"s1", "CHEM1">>, <<"s1", "ECON1">>,
                                 <<"s1", "PHYS1">>})]

InitReport == db = ReportDb /\ InitSessions

ReportRequests ==
    LoginRequests("login_student", {"s1"}, {"pw"})
    \cup CourseRequests("register_course", {"MATH1", "CHEM1"})
    \cup CourseRequests("withdraw_course", {"CHEM1", "ECON1"})

NextReport ==
    \E s \in Sessions :
        \/ Accept(s)
        \/ \E r \in ReportRequests :
               ClientSends(s, r) /\ handle_client(s, r.action, r.data)
        \/ LoginStudentCourses(s)
        \/ RegisterExisting(s)
        \/ RegisterCourses(s)
        \/ DbAcquire(s)
        \/ RegisterInsert(s)
        \/ WithdrawDelete(s)

SpecReport == InitReport /\ [][NextReport]_vars

(***************************************************************************)
(* Requests that name another student, on the persisted store: every       *)
(* register_course, withdraw_course and my_courses carries the field       *)
(* username with the value s2, whoever sends it, and the clients send the  *)
(* logins of s1 and s2 in any state of their session, log out and          *)
(* disconnect when they like.                                              *)
(***************************************************************************)
NamedRequests(action, data, usernames) ==
    {Req(action, [k \in DOMAIN data \cup {"username"} |->
                     IF k = "username" THEN u ELSE data[k]]) :
        u \in usernames}

IdentityRequests ==
    LoginRequests("login_student", {"s1", "s2"}, {"pw"})
    \cup PlainRequests({"logout"})
    \cup NamedRequests("register_course", [course_name |-> "CS101"], {"s2"})
    \cup NamedRequests("withdraw_course", [course_name |-> "CHEM1"], {"s2"})
    \cup NamedRequests("my_courses", NoData, {"s2"})

NextIdentity ==
    \E s \in Sessions :
        \/ Accept(s)
        \/ Disconnect(s)
        \/ \E r \in IdentityRequests : handle_client(s, r.action, r.data)
        \/ LogoutBreak(s)
        \/ LoginStudentCourses(s)
        \/ RegisterExisting(s)
        \/ RegisterCourses(s)
        \/ DbAcquire(s)
        \/ RegisterInsert(s)
        \/ WithdrawDelete(s)

SpecIdentity == InitEnroll /\ [][NextIdentity]_vars

(***************************************************************************)
(* Progress on the persisted store: sessions of s1 that register for and   *)
(* withdraw from PHYS1 as often as they like, so that threads queue for    *)
(* db_lock again and again and an INSERT is refused now and then.  The     *)
(* scheduler runs every thread that can take a step: a thread before a     *)
(* read or inside a write takes that step, and a thread that waits in      *)
(* db_lock.acquire() gets the lock when it is released again and again.    *)
(* For the step of checks 4 and 5, which can be taken whenever the thread  *)
(* is before it, the condition is stated on the thread's position.         *)
(***************************************************************************)
ProgressRequests ==
    LoginRequests("login_student", {"s1"}, {"pw"})
    \cup CourseRequests("register_course", {"PHYS1"})
    \cup CourseRequests("withdraw_course", {"PHYS1"})

NextProgress ==
    \E s \in Sessions :
        \/ Accept(s)
        \/ \E r \in ProgressRequests :
               ClientSends(s, r) /\ handle_client(s, r.action, r.data)
        \/ LoginStudentCourses(s)
        \/ RegisterExisting(s)
        \/ RegisterCourses(s)
        \/ DbAcquire(s)
        \/ RegisterInsert(s)
        \/ WithdrawDelete(s)

SpecProgress ==
    /\ InitEnroll
    /\ [][NextProgress]_vars
    /\ \A s \in Sessions :
          /\ WF_vars(LoginStudentCourses(s))
          /\ WF_vars(RegisterExisting(s))
          /\ []<>(pc[s] # "register_courses")
          /\ WF_vars(RegisterInsert(s))
          /\ WF_vars(WithdrawDelete(s))
          /\ SF_vars(DbAcquire(s))

(***************************************************************************)
(* The handlers run start to finish on a store d: what a request returns   *)
(* and leaves behind when no other thread runs between its db_execute      *)
(* calls.  Each yields the store and the response.                         *)
(***************************************************************************)
Outcome(d, resp) == [db |-> d, response |-> resp]

register_course_serial(d, student_username, data) ==
    LET course_name == Get(data, "course_name")
        course == SelectCourse(d, course_name)
        registered_courses == get_student_registered_courses(d, student_username)
        k == FirstConflict(course.schedule, registered_courses, 1)
    IN
    IF course_name = ""
    THEN Outcome(d, Error("Course name required", <<>>))
    ELSE IF course = None
    THEN Outcome(d, Error("Course '{course_name}' not found", <<course_name>>))
    ELSE IF course.remaining_seats <= 0
    THEN Outcome(d, Error("Course '{course_name}' is full", <<course_name>>))
    ELSE IF SelectRegistration(d, student_username, course_name)
    THEN Outcome(d, Error("You are already registered for '{course_name}'",
                          <<course_name>>))
    ELSE IF Len(registered_courses) >= MAX_COURSES_PER_STUDENT
    THEN Outcome(d, Error("Cannot register for more than {MAX_COURSES_PER_STUDENT} courses",
                          <<>>))
    ELSE IF k # 0
    THEN Outcome(d, Error("Schedule conflict with '{name}' ({schedule})",
                          <<registered_courses[k].name,
                            registered_courses[k].schedule>>))
    ELSE IF InsertRegistrationOk(d, student_username, course_name)
    THEN Outcome(InsertRegistration(d, student_username, course_name),
                 Success("Successfully registered for '{course_name}'",
                         <<course_name>>))
    ELSE Outcome(d, Error("Failed to register for course due to a database error",
                          <<>>))

withdraw_course_serial(d, student_username, data) ==
    LET course_name == Get(data, "course_name") IN
    IF course_name = ""
    THEN Outcome(d, Error("Course name required", <<>>))
    ELSE IF ~SelectRegistration(d, student_username, course_name)
    THEN Outcome(d, Error("You are not registered for '{course_name}'",
                          <<course_name>>))
    ELSE Outcome(DeleteRegistration(d, student_username, course_name),
                 Success("Successfully withdrew from '{course_name}'",
                         <<course_name>>))

create_course_serial(d, data) ==
    LET name == Get(data, "name")
        schedule == GetSeq(data, "schedule")
    IN
    IF name = "" \/ schedule = <<>> \/ ~Has(data, "capacity")
    THEN Outcome(d, Error("Course name, schedule, and capacity required", <<>>))
    ELSE IF data.capacity <= 0
    THEN Outcome(d, Error("Invalid capacity value", <<>>))
    ELSE IF parse_schedule(schedule) = None
    THEN Outcome(d, Error("Invalid schedule format. Use Days HH:MM-HH:MM (e.g., MWF 10:00-11:00)",
                          <<>>))
    ELSE IF name \in DOMAIN d.courses
    THEN Outcome(d, Error("Course '{name}' already exists", <<name>>))
    ELSE Outcome(InsertCourse(d, name, schedule, data.capacity),
                 Success("Course '{name}' created successfully", <<name>>))

update_course_serial(d, data) ==
    LET name == Get(data, "name") IN
    IF name = "" \/ ~Has(data, "capacity")
    THEN Outcome(d, Error("Course name and new capacity required", <<>>))
    ELSE IF name \notin DOMAIN d.courses
    THEN Outcome(d, Error("Course '{name}' not found", <<name>>))
    ELSE IF data.capacity <= d.courses[name].capacity
    THEN Outcome(d, Error("New capacity ({new_capacity}) must be greater than current capacity ({current_capacity})",
                          <<data.capacity, d.courses[name].capacity>>))
    ELSE Outcome(UpdateCapacity(d, name, data.capacity),
                 Success("Capacity for course '{name}' updated to {new_capacity}",
                         <<name, data.capacity>>))

add_student_serial(d, data) ==
    LET name == Get(data, "name")
        new_username == Get(data, "username")
        password == Get(data, "password")
    IN
    IF name = "" \/ new_username = "" \/ password = ""
    THEN Outcome(d, Error("Student name, username, and password required", <<>>))
    ELSE IF new_username \in DOMAIN d.students
    THEN Outcome(d, Error("Student username '{username}' already exists",
                          <<new_username>>))
    ELSE Outcome(InsertStudent(d, name, new_username, hash_password(password)),
                 Success("Student '{username}' added successfully",
                         <<new_username>>))

\* handle_client's dispatch of one mutating request of a session whose
\* locals are (authenticated, type, user).
mutation_serial(d, authenticated, type, user, req) ==
    IF ~authenticated
    THEN Outcome(d, Error("Authentication required", <<>>))
    ELSE IF type = "student"
    THEN CASE req.action = "register_course" ->
                  register_course_serial(d, user, req.data)
           [] req.action = "withdraw_course" ->
                  withdraw_course_serial(d, user, req.data)
           [] OTHER -> Outcome(d, Error("Invalid action for student", <<>>))
    ELSE CASE req.action = "create_course" -> create_course_serial(d, req.data)
           [] req.action = "update_course" -> update_course_serial(d, req.data)
           [] req.action = "add_student" -> add_student_serial(d, req.data)
           [] OTHER -> Outcome(d, Error("Invalid action for admin", <<>>))

(***************************************************************************)
(* Properties.                                                             *)
(***************************************************************************)
SameResponse(a, b) ==
    /\ a.status = b.status
    /\ a.message.text = b.message.text
    /\ a.message.args = b.message.args
    /\ a.data = b.data

HasText(resp, text) == resp.message.text = text

\* The session has the response to the request it received last.
Answered(s) == pc[s] = "idle" /\ response[s] # NoResponse

Rows(d) == BagToSet(d.registrations)

\* The schedules of two courses of the store overlap.
CoursesOverlap(d, c1, c2) ==
    check_schedule_overlap(d.courses[c1].schedule, d.courses[c2].schedule)

\* C1: every course has at most as many registrations as its capacity.
C1_SeatCapacity ==
    \A c \in DOMAIN db.courses :
        CountRegistrations(db, c) <= db.courses[c].capacity

\* C2: when two sessions of two different students have each sent one
\* register_course for CS101 (capacity 1, no registrations) and both have
\* their answer, exactly one answer is a success and the other is the
\* 'course is full' error.
C2_Racers(s, t) ==
    /\ s # t
    /\ request[s] = Req("register_course", [course_name |-> "CS101"])
    /\ request[t] = Req("register_course", [course_name |-> "CS101"])
    /\ is_authenticated[s] /\ is_authenticated[t]
    /\ user_type[s] = "student" /\ user_type[t] = "student"
    /\ username[s] # username[t]
    /\ Answered(s) /\ Answered(t)
    /\ \A o \in Sessions \ {s, t} : request[o].action \notin MutatingActions
    /\ db.courses["CS101"].capacity = 1

C2_LastSeatRace ==
    \A s, t \in Sessions :
        C2_Racers(s, t) =>
            \/ /\ response[s].status = "success"
               /\ HasText(response[t], "Course '{course_name}' is full")
            \/ /\ response[t].status = "success"
               /\ HasText(response[s], "Course '{course_name}' is full")

\* What check 1 to 5 of register_course require of the store for the pair.
EnrollAllowed(d, u, c) ==
    /\ c \in DOMAIN d.courses
    /\ d.courses[c].capacity - CountRegistrations(d, c) > 0
    /\ ~BagIn(<<u, c>>, d.registrations)
    /\ CountOfStudent(d, u) < MAX_COURSES_PER_STUDENT
    /\ \A r \in Rows(d) :
           (r[1] = u /\ r[2] \in DOMAIN d.courses) => ~CoursesOverlap(d, c, r[2])

\* C3: every step that inserts a registration is taken in a store where the
\* course has a remaining seat, the pair is absent, the student is below the
\* limit and no course the student holds overlaps the new one.
C3_AtomicEnroll ==
    [][\A r \in Rows(db') :
          CopiesIn(r, db'.registrations) > CopiesIn(r, db.registrations)
              => EnrollAllowed(db, r[1], r[2])]_vars

\* C4: no student holds more than MAX_COURSES_PER_STUDENT registrations.
C4_StudentCeiling ==
    \A r \in Rows(db) : CountOfStudent(db, r[1]) <= MAX_COURSES_PER_STUDENT

\* C5: no student holds two different courses whose schedules overlap.
C5_NoOverlap ==
    \A r1, r2 \in Rows(db) :
        (r1[1] = r2[1] /\ r1[2] # r2[2]
            /\ r1[2] \in DOMAIN db.courses /\ r2[2] \in DOMAIN db.courses)
        => ~CoursesOverlap(db, r1[2], r2[2])

\* C6: every (student, course) pair appears at most once in registrations.
C6_NoDuplicate ==
    \A r \in Rows(db) : CopiesIn(r, db.registrations) = 1

\* C6's case: two sessions of one student raced for the same course; one
\* INSERT was committed and the other was refused by the primary key.
C6_Witness ==
    \E s, t \in Sessions :
        /\ s # t
        /\ username[s] = username[t]
        /\ request[s] = request[t]
        /\ request[s].action = "register_course"
        /\ Answered(s) /\ Answered(t)
        /\ response[s].status = "success"
        /\ HasText(response[t],
                   "Failed to register for course due to a database error")
        /\ BagIn(<<username[s], request[s].data.course_name>>, db.registrations)

\* C7: every registration names a student of students and a course of courses.
C7_ReferentialIntegrity ==
    \A r \in Rows(db) :
        r[1] \in DOMAIN db.students /\ r[2] \in DOMAIN db.courses

\* C7's case: a student the admin added during the run holds a course.
C7_Witness ==
    \E c \in DOMAIN db.courses :
        /\ BagIn(<<"s3", c>>, db.registrations)
        /\ "s3" \in DOMAIN db.students
        /\ "s3" \notin DOMAIN SeedDb.students

RECURSIVE Orders(_)
Orders(S) ==
    IF S = {} THEN {<<>>}
    ELSE UNION {{<<x>> \o o : o \in Orders(S \ {x})} : x \in S}

\* The store after the sessions of order ran their requests one at a time
\* from store d, or None when one of them got another response than it has.
RECURSIVE Replay(_, _, _)
Replay(d, order, i) ==
    IF i > Len(order) THEN d
    ELSE LET s == order[i]
             out == mutation_serial(d, is_authenticated[s], user_type[s],
                                    username[s], request[s])
         IN IF SameResponse(out.response, response[s])
            THEN Replay(out.db, order, i + 1)
            ELSE None

Mutators == {s \in Sessions : request[s].action \in MutatingActions}

\* C8: once every mutating request has its response, the responses and the
\* store are those of running the requests one at a time, in some order,
\* from the initial store.
C8_Serializable ==
    (\A s \in Mutators : Answered(s)) =>
        \E order \in Orders(Mutators) : Replay(SeedDb, order, 1) = db

\* C9: no step lowers the capacity of a course.
C9_CapacityOnlyGrows ==
    [][\A c \in DOMAIN db.courses :
          c \in DOMAIN db'.courses
          /\ db'.courses[c].capacity >= db.courses[c].capacity]_vars

\* The session receives a request in this step: its thread leaves recv, and
\* not by the end of the connection.
Receives(s) ==
    /\ conn[s] = "open"
    /\ pc[s] = "idle"
    /\ pc'[s] # "done"
    /\ \/ request'[s] # request[s]
       \/ response'[s] # response[s]
       \/ pc'[s] # pc[s]

\* C10: a request other than a login received by an unauthenticated session
\* is answered with 'Authentication required', leaves the session
\* unauthenticated and leaves the store as it is.
C10_AuthGate ==
    [][\A s \in Sessions :
          (~is_authenticated[s] /\ Receives(s)
              /\ request'[s].action \notin {"login_student", "login_admin"})
          => /\ pc'[s] = "idle"
             /\ response'[s].status = "error"
             /\ HasText(response'[s], "Authentication required")
             /\ ~is_authenticated'[s]
             /\ user_type'[s] = user_type[s]
             /\ username'[s] = username[s]
             /\ conn'[s] = "open"
             /\ db' = db]_vars

\* C10's case: an unauthenticated session sent register_course and was
\* refused.
C10_Witness ==
    \E s \in Sessions :
        /\ ~is_authenticated[s]
        /\ conn[s] = "open"
        /\ request[s].action = "register_course"
        /\ Answered(s)
        /\ HasText(response[s], "Authentication required")

\* The thread of session s takes this step.
Actor(s) == pc'[s] # pc[s]

StudentMutations == {"register_course", "withdraw_course"}

AdminMutations == {"create_course", "update_course", "add_student"}

\* C11: a step that changes the registrations is a step of a handler thread
\* serving register_course or withdraw_course for a session authenticated as
\* a student; a step that changes the courses or the students is a step of
\* a handler thread serving create_course, update_course or add_student for
\* a session authenticated as the admin; no other step changes the store.
C11_RoleScopedMutation ==
    [][/\ (\A s \in Sessions : ~Actor(s)) => db' = db
       /\ \A s \in Sessions :
            Actor(s) =>
              /\ db'.registrations # db.registrations =>
                    /\ is_authenticated[s] /\ user_type[s] = "student"
                    /\ request[s].action \in StudentMutations
                    /\ pc[s] \in {"register_insert", "withdraw_delete"}
              /\ (db'.courses # db.courses \/ db'.students # db.students) =>
                    /\ is_authenticated[s] /\ user_type[s] = "admin"
                    /\ request[s].action \in AdminMutations
                    /\ pc[s] \in {"create_insert", "update_write",
                                  "add_student_insert"}
              /\ db'.admins = db.admins]_vars

\* C11's case: during the run a student session has inserted a registration
\* and an admin session has changed the courses or the students.
C11_Witness ==
    \E s, t \in Sessions :
        /\ user_type[s] = "student" /\ Answered(s)
        /\ request[s].action = "register_course"
        /\ BagIn(<<username[s], "CS101">>, db.registrations)
        /\ ~BagIn(<<username[s], "CS101">>, SeedDb.registrations)
        /\ user_type[t] = "admin" /\ Answered(t)
        /\ request[t].action \in AdminMutations
        /\ (db.courses # SeedDb.courses \/ db.students # SeedDb.students)

StudentCommands == {"list_courses_student", "register_course",
                    "withdraw_course", "my_courses", "logout"}

AdminCommands == {"list_courses_admin", "create_course", "update_course",
                  "add_student", "logout"}

CommandsOf(role) == IF role = "student" THEN StudentCommands ELSE AdminCommands

InvalidFor(role) ==
    IF role = "student" THEN "Invalid action for student"
    ELSE "Invalid action for admin"

\* C12: a request received by an authenticated session whose action is not a
\* command of the session's role is answered at once with the error 'Invalid
\* action for <role>'; the session's flag, role and username, its connection
\* and the store stay as they are.
C12_WrongRole ==
    [][\A s \in Sessions :
          (is_authenticated[s] /\ Receives(s)
              /\ request'[s].action \notin CommandsOf(user_type[s]))
          => /\ pc'[s] = "idle"
             /\ response'[s].status = "error"
             /\ HasText(response'[s], InvalidFor(user_type[s]))
             /\ is_authenticated'[s]
             /\ user_type'[s] = user_type[s]
             /\ username'[s] = username[s]
             /\ conn'[s] = "open"
             /\ db' = db]_vars

\* C12's case: a student session was refused the admin's create_course and an
\* admin session was refused a login action.
C12_Witness ==
    \E s, t \in Sessions :
        /\ is_authenticated[s] /\ user_type[s] = "student"
        /\ request[s].action = "create_course"
        /\ Answered(s) /\ HasText(response[s], "Invalid action for student")
        /\ is_authenticated[t] /\ user_type[t] = "admin"
        /\ request[t].action = "login_student"
        /\ Answered(t) /\ HasText(response[t], "Invalid action for admin")

\* The session is Closed: it has answered a logout, or its connection is
\* closed.
Closed(s) == conn[s] = "closed" \/ pc[s] = "logout_break"

\* The response to a logout: success, the session Closed and no longer
\* authenticated, the store as it was.
LogoutAnswer(s) ==
    /\ pc'[s] = "logout_break"
    /\ response'[s] = Success("Logged out", <<>>)
    /\ ~is_authenticated'[s]
    /\ Closed(s)'
    /\ db' = db

\* The next step of a session that answered a logout closes its connection,
\* and that step is eventually taken.
LogoutCloses ==
    /\ [][\A s \in Sessions :
             (pc[s] = "logout_break" /\ Actor(s)) => conn'[s] = "closed"]_vars
    /\ \A s \in Sessions : (pc[s] = "logout_break") ~> (conn[s] = "closed")

\* C13 as stated: every logout a session receives is answered with success
\* and makes the session Closed, and the connection is then closed.
C13_LogoutAlwaysSucceeds ==
    /\ [][\A s \in Sessions :
             (Receives(s) /\ request'[s].action = "logout")
                 => LogoutAnswer(s)]_vars
    /\ LogoutCloses

\* C13 amended: every logout an authenticated session receives is answered
\* with success and makes the session Closed, and the connection is then
\* closed.
C13_LogoutOfAuthenticated ==
    /\ [][\A s \in Sessions :
             (is_authenticated[s] /\ Receives(s)
                 /\ request'[s].action = "logout")
                 => LogoutAnswer(s)]_vars
    /\ LogoutCloses

\* C13's case: a student session and an admin session have each been
\* answered their logout.
C13_Witness ==
    \E s, t \in Sessions :
        /\ pc[s] = "logout_break" /\ user_type[s] = "student"
        /\ pc[t] = "logout_break" /\ user_type[t] = "admin"
        /\ response[s].status = "success" /\ response[t].status = "success"

\* C14: a Closed session stays Closed and unauthenticated, its thread is at
\* no handler position and does not hold db_lock, and no step of its thread
\* changes the store.
C14_ClosedTerminal ==
    [][\A s \in Sessions :
          Closed(s) =>
            /\ Closed(s)'
            /\ ~is_authenticated[s] /\ ~is_authenticated'[s]
            /\ pc'[s] \in {"logout_break", "done"}
            /\ db_lock # s /\ db_lock' # s
            /\ request'[s] \in {request[s], NoRequest}
            /\ Actor(s) => db' = db]_vars

\* C14's case: one session is closed, another has answered a logout, and
\* the store has been changed during the run.
C14_Witness ==
    \E s, t \in Sessions :
        /\ conn[s] = "closed"
        /\ pc[t] = "logout_break"
        /\ db # SeedDb

\* The login request names an account of the relation of its action, with
\* the password whose hash the account stores.
ValidLogin(d, r) ==
    /\ r.action \in LoginActions
    /\ "username" \in DOMAIN r.data /\ "password" \in DOMAIN r.data
    /\ r.data.username # "" /\ r.data.password # ""
    /\ IF r.action = "login_student"
       THEN /\ r.data.username \in DOMAIN d.students
            /\ d.students[r.data.username].password_hash
                   = hash_password(r.data.password)
       ELSE /\ r.data.username \in DOMAIN d.admins
            /\ d.admins[r.data.username] = hash_password(r.data.password)

RoleOfLogin(action) == IF action = "login_student" THEN "student" ELSE "admin"

\* C15: a session becomes authenticated only by a step of its login handler
\* whose request names an account of the store with the matching password
\* hash, and it then has that login's role and that username; a login
\* request with a missing field, an unknown username or a wrong password is
\* answered with an error and leaves the session unauthenticated.
C15_AuthTransition ==
    [][\A s \in Sessions :
          /\ (~is_authenticated[s] /\ is_authenticated'[s]) =>
                /\ ValidLogin(db, request[s])
                /\ request'[s] = request[s]
                /\ user_type'[s] = RoleOfLogin(request[s].action)
                /\ username'[s] = request[s].data.username
                /\ response'[s].status = "success"
          /\ (~is_authenticated[s] /\ Receives(s)
                 /\ request'[s].action \in LoginActions
                 /\ ~ValidLogin(db, request'[s])) =>
                /\ pc'[s] = "idle"
                /\ response'[s].status = "error"
                /\ ~is_authenticated'[s]
                /\ user_type'[s] = user_type[s]
                /\ username'[s] = username[s]
          /\ (is_authenticated[s] /\ is_authenticated'[s]) =>
                /\ user_type'[s] = user_type[s]
                /\ username'[s] = username[s]]_vars

\* C15's case: one session logged in as the student s1; another was
\* refused a login as s1 with a wrong password.
C15_Witness ==
    \E s, t \in Sessions :
        /\ is_authenticated[s] /\ user_type[s] = "student"
        /\ username[s] = "s1" /\ request[s].action = "login_student"
        /\ "s1" \in DOMAIN db.students
        /\ ~is_authenticated[t] /\ Answered(t)
        /\ request[t] = Req("login_student",
                            [username |-> "s1", password |-> "bad"])
        /\ HasText(response[t], "Invalid credentials")

\* The session, answered with success for its register_course, receives the
\* same request again while the pair it inserted is still in the store.
Reissues(s) ==
    /\ Answered(s)
    /\ request[s].action = "register_course"
    /\ response[s].status = "success"
    /\ BagIn(<<username[s], request[s].data.course_name>>, db.registrations)
    /\ Receives(s)
    /\ request'[s] = request[s]

\* Check 3 answers a request whose pair is in the store with the 'already
\* registered' error and leaves the store as it is.
AlreadyRegisteredAnswer(s) ==
    (pc[s] = "register_existing" /\ Actor(s)
        /\ BagIn(<<username[s], frame[s].course_name>>, db.registrations))
    => /\ pc'[s] = "idle"
       /\ response'[s] = Error("You are already registered for '{course_name}'",
                               <<frame[s].course_name>>)
       /\ db' = db

NoSecondInsert ==
    \A r \in Rows(db') : CopiesIn(r, db'.registrations) <= 1

\* C16 as stated: the re-issued register_course is refused by no check
\* before the 'already registered' one, that check answers it with its
\* error, and no step leaves a pair twice in registrations.
C16_EnrollIdempotent ==
    [][/\ \A s \in Sessions :
            /\ Reissues(s) => pc'[s] = "register_existing"
            /\ AlreadyRegisteredAnswer(s)
       /\ NoSecondInsert]_vars

\* C16 amended: the re-issued register_course is answered 'is full' when the
\* course has no remaining seat and otherwise reaches the 'already
\* registered' check, which answers it with its error; no step leaves a pair
\* twice in registrations.
C16_ReissueFails ==
    [][/\ \A s \in Sessions :
            /\ Reissues(s) =>
                 LET c == request[s].data.course_name IN
                 IF db.courses[c].capacity - CountRegistrations(db, c) <= 0
                 THEN /\ pc'[s] = "idle"
                      /\ response'[s] =
                             Error("Course '{course_name}' is full", <<c>>)
                      /\ db' = db
                 ELSE pc'[s] = "register_existing"
            /\ AlreadyRegisteredAnswer(s)
       /\ NoSecondInsert]_vars

\* C16's case: a student who holds PHYS1 (a seat is left) was answered
\* 'already registered' for it, and a student who holds CS101 (no seat is
\* left) was answered 'is full' for it.
C16_Witness ==
    \E s, t \in Sessions :
        /\ Answered(s) /\ request[s] = Req("register_course",
                                           [course_name |-> "PHYS1"])
        /\ BagIn(<<username[s], "PHYS1">>, db.registrations)
        /\ HasText(response[s], "You are already registered for '{course_name}'")
        /\ Answered(t) /\ request[t] = Req("register_course",
                                           [course_name |-> "CS101"])
        /\ BagIn(<<username[t], "CS101">>, db.registrations)
        /\ HasText(response[t], "Course '{course_name}' is full")

\* C17: the DELETE of a withdraw_course takes effect on a store that holds
\* the (student, course) pair, removes exactly that pair and is answered
\* with success; a withdraw_course answered 'not registered' found no pair
\* and leaves the store as it is.  (Two sessions of one student that
\* withdraw the same course can then not both be answered with success.)
C17_WithdrawAtomic ==
    [][\A s \in Sessions :
          /\ (pc[s] = "withdraw_delete" /\ Actor(s)) =>
                LET row == <<username[s], frame[s].course_name>> IN
                /\ BagIn(row, db.registrations)
                /\ ~BagIn(row, db'.registrations)
                /\ \A r \in Rows(db) \ {row} :
                       CopiesIn(r, db'.registrations)
                           = CopiesIn(r, db.registrations)
                /\ response'[s].status = "success"
          /\ (Receives(s) /\ request'[s].action = "withdraw_course"
                 /\ HasText(response'[s],
                            "You are not registered for '{course_name}'")) =>
                /\ ~BagIn(<<username[s], request'[s].data.course_name>>,
                          db.registrations)
                /\ db' = db]_vars

LimitError ==
    Error("Cannot register for more than {MAX_COURSES_PER_STUDENT} courses",
          <<>>)

\* A student session whose student holds MAX_COURSES_PER_STUDENT
\* registrations receives a register_course for an existing course the
\* student does not hold.
IssuesSixth(s) ==
    /\ is_authenticated[s] /\ user_type[s] = "student"
    /\ Receives(s)
    /\ request'[s].action = "register_course"
    /\ request'[s].data.course_name \in DOMAIN db.courses
    /\ ~BagIn(<<username[s], request'[s].data.course_name>>, db.registrations)
    /\ CountOfStudent(db, username[s]) = MAX_COURSES_PER_STUDENT

\* Check 4 answers the request of a student who holds
\* MAX_COURSES_PER_STUDENT registrations or more with the limit error,
\* whatever the schedules are.
LimitAnswer(s) ==
    (pc[s] = "register_courses" /\ Actor(s)
        /\ CountOfStudent(db, username[s]) >= MAX_COURSES_PER_STUDENT)
    => /\ pc'[s] = "idle"
       /\ response'[s] = LimitError
       /\ db' = db

\* C18 as stated: the request for a sixth course is refused by no check
\* before the limit check, whatever the course's remaining seats, and the
\* limit check answers it with the limit error, whatever its schedule.
C18_LimitScenario ==
    [][\A s \in Sessions :
          /\ IssuesSixth(s) => pc'[s] = "register_existing"
          /\ LimitAnswer(s)]_vars

\* C18 amended: the request for a sixth course is answered 'is full' when
\* the course has no remaining seat; when it has one the request reaches the
\* limit check, which answers it with the limit error, whatever its
\* schedule.
C18_LimitUnlessFull ==
    [][\A s \in Sessions :
          /\ IssuesSixth(s) =>
               LET c == request'[s].data.course_name IN
               IF db.courses[c].capacity - CountRegistrations(db, c) <= 0
               THEN /\ pc'[s] = "idle"
                    /\ response'[s] =
                           Error("Course '{course_name}' is full", <<c>>)
                    /\ db' = db
               ELSE pc'[s] = "register_existing"
          /\ LimitAnswer(s)]_vars

\* C18's case: s1 holds five courses; one session of s1 was answered the
\* limit error for PHYS1, which has a seat and fits, another for STAT1,
\* which meets in the hour of CHEM1.
C18_Witness ==
    \E s, t \in Sessions :
        /\ username[s] = "s1" /\ username[t] = "s1"
        /\ CountOfStudent(db, "s1") = MAX_COURSES_PER_STUDENT
        /\ CountRegistrations(db, "PHYS1") = 0
        /\ CoursesOverlap(db, "STAT1", "CHEM1")
        /\ BagIn(<<"s1", "CHEM1">>, db.registrations)
        /\ Answered(s) /\ request[s] = Req("register_course",
                                           [course_name |-> "PHYS1"])
        /\ response[s] = LimitError
        /\ Answered(t) /\ request[t] = Req("register_course",
                                           [course_name |-> "STAT1"])
        /\ response[t] = LimitError

MinutesOfDay == 0..1439

\* Two descriptors share a weekday.
SharesDay(schedule1, schedule2) ==
    LET p == parse_schedule(schedule1)
        q == parse_schedule(schedule2)
    IN p # None /\ q # None /\ \E day \in p.days : day \in q.days

\* Two descriptors overlap: on a common weekday, some minute of the day lies
\* in both time windows.
Meets(schedule1, schedule2) ==
    LET p == parse_schedule(schedule1)
        q == parse_schedule(schedule2)
    IN /\ SharesDay(schedule1, schedule2)
       /\ \E m \in MinutesOfDay :
              p.start <= m /\ m < p.end /\ q.start <= m /\ m < q.end

\* The courses the student holds in store d.
HeldBy(d, u) == {r[2] : r \in {x \in Rows(d) : x[1] = u}} \cap DOMAIN d.courses

\* The step answers with the schedule-conflict error.
ConflictAnswer(s) ==
    /\ pc'[s] = "idle"
    /\ response'[s].status = "error"
    /\ HasText(response'[s], "Schedule conflict with '{name}' ({schedule})")

\* C19: when a register_course has passed the existence, capacity and
\* duplicate checks and the student holds fewer than MAX_COURSES_PER_STUDENT
\* courses, the step of checks 4 and 5 answers with the schedule-conflict
\* error exactly when the target's schedule overlaps that of a course the
\* student holds; the error names a held course that overlaps the target and
\* the store stays as it is; when no held course shares a weekday with the
\* target there is no conflict error and the handler goes on to the INSERT.
C19_ConflictDetection ==
    [][\A s \in Sessions :
          (pc[s] = "register_courses" /\ Actor(s)
              /\ CountOfStudent(db, username[s]) < MAX_COURSES_PER_STUDENT)
          => LET target == db.courses[frame[s].course_name].schedule
                 held == HeldBy(db, username[s])
             IN
             /\ ConflictAnswer(s)
                    <=> \E h \in held : Meets(target, db.courses[h].schedule)
             /\ ConflictAnswer(s) =>
                    LET named == response'[s].message.args[1] IN
                    /\ named \in held
                    /\ Meets(target, db.courses[named].schedule)
                    /\ response'[s].message.args[2] = db.courses[named].schedule
                    /\ db' = db
             /\ (\A h \in held : ~SharesDay(target, db.courses[h].schedule))
                    => ~ConflictAnswer(s)
             /\ ~ConflictAnswer(s) => pc'[s] = "register_acquire"]_vars

\* C19's case: s1 holds MATH1 "MWF 10:00-11:00"; the request for PHYS1
\* "MW 10:30-11:30" was answered with the conflict error naming MATH1 and the
\* request for CHEM1 "TR 10:00-11:00" with success.
C19_Witness ==
    \E s, t \in Sessions :
        /\ username[s] = "s1" /\ username[t] = "s1"
        /\ db.courses["MATH1"].schedule = MWF_10_11
        /\ db.courses["PHYS1"].schedule = MW_1030_1130
        /\ db.courses["CHEM1"].schedule = TR_10_11
        /\ Rows(db) = {<<"s1", "MATH1">>, <<"s1", "CHEM1">>}
        /\ Answered(s) /\ request[s] = Req("register_course",
                                           [course_name |-> "PHYS1"])
        /\ response[s] = Error("Schedule conflict with '{name}' ({schedule})",
                               <<"MATH1", MWF_10_11>>)
        /\ Answered(t) /\ request[t] = Req("register_course",
                                           [course_name |-> "CHEM1"])
        /\ response[t].status = "success"

\* Every stored course has a positive capacity and a descriptor that
\* parse_schedule accepts.
ValidCourses(d) ==
    \A c \in DOMAIN d.courses :
        /\ d.courses[c].capacity > 0
        /\ parse_schedule(d.courses[c].schedule) # None

\* The request carries a capacity that is not positive or a descriptor that
\* parse_schedule rejects.
InvalidOffering(data) ==
    \/ Has(data, "capacity") /\ data.capacity <= 0
    \/ Has(data, "schedule") /\ parse_schedule(data.schedule) = None

ValidationErrors ==
    {"Invalid capacity value",
     "Invalid schedule format. Use Days HH:MM-HH:MM (e.g., MWF 10:00-11:00)"}

\* C20: a create_course with a capacity that is not positive or a descriptor
\* that parse_schedule rejects is answered at once with an error (by the
\* admin's handler with the capacity or the schedule-format error) and
\* leaves the store as it is; in every reachable state every stored course
\* has a positive capacity and a descriptor that parse_schedule accepts.
C20_OfferingValidation ==
    /\ []ValidCourses(db)
    /\ [][\A s \in Sessions :
             (Receives(s) /\ request'[s].action = "create_course"
                 /\ InvalidOffering(request'[s].data))
             => /\ pc'[s] = "idle"
                /\ response'[s].status = "error"
                /\ (is_authenticated[s] /\ user_type[s] = "admin")
                       => response'[s].message.text \in ValidationErrors
                /\ db' = db]_vars

\* C20's case: the store holds a course; one admin session was refused
\* "MWF 25:00-26:00" for its format and another a capacity of 0.
C20_Witness ==
    \E s, t \in Sessions :
        /\ DOMAIN db.courses # {}
        /\ user_type[s] = "admin" /\ Answered(s)
        /\ request[s].action = "create_course"
        /\ request[s].data.schedule = MWF_25_26
        /\ HasText(response[s],
                   "Invalid schedule format. Use Days HH:MM-HH:MM (e.g., MWF 10:00-11:00)")
        /\ user_type[t] = "admin" /\ Answered(t)
        /\ request[t].action = "create_course"
        /\ request[t].data.capacity = 0
        /\ HasText(response[t], "Invalid capacity value")

\* The step answers the request with the 'already exists' error.
AlreadyExistsAnswer(s) ==
    /\ pc'[s] = "idle"
    /\ response'[s].status = "error"
    /\ HasText(response'[s], "Course '{name}' already exists")

\* Two admin sessions have each sent one valid create_course for the same
\* name, which the store did not hold at the start, and both have their
\* answer.
C21_Racers(s, t) ==
    /\ s # t
    /\ request[s].action = "create_course"
    /\ request[t].action = "create_course"
    /\ request[s].data.name = request[t].data.name
    /\ request[s].data.name \notin DOMAIN SeedDb.courses
    /\ is_authenticated[s] /\ user_type[s] = "admin"
    /\ is_authenticated[t] /\ user_type[t] = "admin"
    /\ Answered(s) /\ Answered(t)

\* C21: a valid create_course received by an admin session for a name the
\* store holds is answered with the 'already exists' error and leaves the
\* store as it is; no step changes the schedule or the capacity of a course
\* other than a capacity update; and when two admin sessions have each sent
\* one create_course for the same new name, exactly one was answered with
\* success and the other with the 'already exists' error.
C21_UniqueNames ==
    /\ [][\A s \in Sessions :
             (Receives(s) /\ is_authenticated[s] /\ user_type[s] = "admin"
                 /\ request'[s].action = "create_course"
                 /\ ~InvalidOffering(request'[s].data)
                 /\ request'[s].data.name \in DOMAIN db.courses)
             => AlreadyExistsAnswer(s) /\ db' = db]_vars
    /\ [][\A s \in Sessions :
             (Actor(s) /\ request[s].action = "create_course")
             => \A c \in DOMAIN db.courses :
                    c \in DOMAIN db'.courses /\ db'.courses[c] = db.courses[c]]_vars
    /\ [](\A s, t \in Sessions :
             C21_Racers(s, t) =>
                \/ /\ response[s].status = "success"
                   /\ HasText(response[t], "Course '{name}' already exists")
                \/ /\ response[t].status = "success"
                   /\ HasText(response[s], "Course '{name}' already exists"))

\* C22: an update_course received by an admin session for a name the store
\* does not hold is answered at once with the not-found error, and one whose
\* new capacity is less than or equal to the course's capacity with the
\* not-increasing error, which reports both capacities; in both cases the
\* store stays as it is.
C22_UpdateErrors ==
    [][\A s \in Sessions :
          (Receives(s) /\ is_authenticated[s] /\ user_type[s] = "admin"
              /\ request'[s].action = "update_course")
          => LET name == request'[s].data.name
                 new_capacity == request'[s].data.capacity
             IN
             /\ name \notin DOMAIN db.courses =>
                   /\ pc'[s] = "idle"
                   /\ response'[s] = Error("Course '{name}' not found", <<name>>)
                   /\ db' = db
             /\ (name \in DOMAIN db.courses
                    /\ new_capacity <= db.courses[name].capacity) =>
                   /\ pc'[s] = "idle"
                   /\ response'[s] =
                         Error("New capacity ({new_capacity}) must be greater than current capacity ({current_capacity})",
                               <<new_capacity, db.courses[name].capacity>>)
                   /\ db' = db]_vars

\* C22's case: CS101 has capacity 1; one admin session was refused the new
\* capacity 1 as not increasing and another the update of MATH1, which the
\* store does not hold.
C22_Witness ==
    \E s, t \in Sessions :
        /\ db.courses["CS101"].capacity = 1
        /\ "MATH1" \notin DOMAIN db.courses
        /\ user_type[s] = "admin" /\ Answered(s)
        /\ request[s] = Req("update_course", [name |-> "CS101", capacity |-> 1])
        /\ HasText(response[s],
                   "New capacity ({new_capacity}) must be greater than current capacity ({current_capacity})")
        /\ user_type[t] = "admin" /\ Answered(t)
        /\ request[t].action = "update_course"
        /\ request[t].data.name = "MATH1"
        /\ HasText(response[t], "Course '{name}' not found")

\* The response carries a course list.
IsCourseList(resp) ==
    resp.status = "success" /\ resp.data # <<>> /\ resp.data[1] = "courses"

\* rows lists every course of store d once, each with its schedule, its
\* capacity and, as remaining seats, its capacity minus the number of the
\* registrations of the course in d.
ListsStore(rows, d) ==
    /\ Len(rows) = Cardinality(DOMAIN d.courses)
    /\ {rows[i].name : i \in 1..Len(rows)} = DOMAIN d.courses
    /\ \A i \in 1..Len(rows) :
          LET c == rows[i].name IN
          /\ rows[i].schedule = d.courses[c].schedule
          /\ rows[i].capacity = d.courses[c].capacity
          /\ rows[i].remaining_seats =
                d.courses[c].capacity
                    - Cardinality({r \in Rows(d) : r[2] = c})

\* C23: a step that answers a request with a course list (the answer to
\* list_courses_student, list_courses_admin or login_admin) reports the
\* courses of the store in which the step is taken, each with remaining
\* seats equal to its capacity minus the number of its registrations in
\* that store, and leaves the store as it is.
C23_ConsistentListing ==
    [][\A s \in Sessions :
          ((Receives(s) \/ Actor(s)) /\ pc'[s] = "idle"
              /\ IsCourseList(response'[s]))
          => /\ request'[s].action \in {"list_courses_student",
                                        "list_courses_admin", "login_admin"}
             /\ ListsStore(response'[s].data[2], db)
             /\ db' = db]_vars

\* C23's case: after s1 registered for CS101 and the admin raised its
\* capacity to 2 and created MATH1, a student session holds a list that
\* reports one remaining seat of two for CS101 and an admin session a list of
\* the four courses.
C23_Witness ==
    \E s, t \in Sessions :
        /\ request[s].action = "list_courses_student" /\ Answered(s)
        /\ IsCourseList(response[s])
        /\ \E i \in 1..Len(response[s].data[2]) :
              /\ response[s].data[2][i].name = "CS101"
              /\ response[s].data[2][i].capacity = 2
              /\ response[s].data[2][i].remaining_seats = 1
        /\ request[t].action = "list_courses_admin" /\ Answered(t)
        /\ IsCourseList(response[t])
        /\ Len(response[t].data[2]) = 4

\* The thread of session s takes this step: it receives a frame or goes on
\* with the request it is serving.
StepOf(s) == Receives(s) \/ Actor(s)

SameSession(s) ==
    /\ is_authenticated'[s] = is_authenticated[s]
    /\ user_type'[s] = user_type[s]
    /\ username'[s] = username[s]

\* C24: a step of a handler thread that answers with an error response
\* leaves the thread in recv on its open connection, and every step of a
\* handler thread that does not answer with a success response and does not
\* end the connection leaves the session's authenticated flag, role and
\* username as they are: from the receipt of a request to its error
\* response the session's state does not change, and the thread is where
\* it receives the next request.
C24_ErrorsKeepSession ==
    [][\A s \in Sessions :
          /\ (StepOf(s) /\ response'[s].status = "error")
                => /\ pc'[s] = "idle"
                   /\ conn'[s] = "open"
          /\ (StepOf(s) /\ response'[s].status # "success"
                 /\ pc'[s] \notin {"done", "logout_break"})
                => SameSession(s) /\ conn'[s] = conn[s]]_vars

\* C24's case: a session that s1 authenticated was answered the
\* schedule-conflict error and is still authenticated as s1, and another,
\* unauthenticated, was answered the error of a malformed frame; both are in
\* recv on their open connections.
C24_Witness ==
    \E s, t \in Sessions :
        /\ is_authenticated[s] /\ user_type[s] = "student"
        /\ username[s] = "s1"
        /\ Answered(s) /\ conn[s] = "open"
        /\ request[s].action = "register_course"
        /\ HasText(response[s], "Schedule conflict with '{name}' ({schedule})")
        /\ ~is_authenticated[t]
        /\ Answered(t) /\ conn[t] = "open"
        /\ HasText(response[t], "Invalid JSON format")

\* Store e is store d with the single write of the request session s is
\* serving applied in full.
FullyApplied(s, d, e) ==
    LET data == request[s].data
        action == request[s].action
    IN
    CASE action = "register_course" ->
             /\ e.registrations =
                   d.registrations (+) SetToBag({<<username[s], data.course_name>>})
             /\ e.courses = d.courses /\ e.students = d.students
      [] action = "withdraw_course" ->
             /\ ~BagIn(<<username[s], data.course_name>>, e.registrations)
             /\ \A r \in Rows(d) \cup Rows(e) :
                   r # <<username[s], data.course_name>>
                   => CopiesIn(r, e.registrations) = CopiesIn(r, d.registrations)
             /\ e.courses = d.courses /\ e.students = d.students
      [] action = "create_course" ->
             /\ DOMAIN e.courses = DOMAIN d.courses \cup {data.name}
             /\ data.name \notin DOMAIN d.courses
             /\ e.courses[data.name] = CourseRow(data.schedule, data.capacity)
             /\ \A c \in DOMAIN d.courses : e.courses[c] = d.courses[c]
             /\ e.registrations = d.registrations /\ e.students = d.students
      [] action = "update_course" ->
             /\ DOMAIN e.courses = DOMAIN d.courses
             /\ e.courses[data.name].capacity = data.capacity
             /\ e.courses[data.name].schedule = d.courses[data.name].schedule
             /\ \A c \in DOMAIN d.courses \ {data.name} :
                   e.courses[c] = d.courses[c]
             /\ e.registrations = d.registrations /\ e.students = d.students
      [] action = "add_student" ->
             /\ DOMAIN e.students = DOMAIN d.students \cup {data.username}
             /\ data.username \notin DOMAIN d.students
             /\ e.students[data.username] =
                   [name |-> data.name,
                    password_hash |-> hash_password(data.password)]
             /\ \A u \in DOMAIN d.students : e.students[u] = d.students[u]
             /\ e.registrations = d.registrations /\ e.courses = d.courses
      [] OTHER -> FALSE

\* The positions of a handler thread before its write.
WritePoints == {"register_insert", "withdraw_delete", "create_insert",
                "update_write", "add_student_insert"}

\* The response reports a failed write.
WriteFailed(resp) ==
    resp.message.text \in
        {"Failed to register for course due to a database error",
         "Failed to withdraw from course due to a database error",
         "Failed to create course due to a database error",
         "Failed to update course capacity due to a database error",
         "Failed to add student due to a database error"}

\* C25: only the write step of a handler thread serving a mutating request
\* changes the store, whether or not the client has closed the connection;
\* it is the last step of the request, and it either applies the request's
\* single write in full and answers with success, or leaves the store as it
\* is and answers with the error of a failed write.
C25_AllOrNothing ==
    [][/\ db' # db => \E s \in Sessions : Actor(s) /\ pc[s] \in WritePoints
       /\ db'.admins = db.admins
       /\ \A s \in Sessions :
             (Actor(s) /\ pc[s] \in WritePoints)
             => /\ request[s].action \in MutatingActions
                /\ pc'[s] = "idle"
                /\ \/ /\ FullyApplied(s, db, db')
                      /\ response'[s].status = "success"
                   \/ /\ db' = db
                      /\ response'[s].status = "error"
                      /\ WriteFailed(response'[s])]_vars

\* C25's case: a client closed its connection while its register_course was
\* being served, and the request was served to its end: the registration is
\* in the store; the INSERT of another session of the same student was
\* refused and answered with the error of a failed write, and the store
\* holds the pair once.
C25_Witness ==
    \E s, t \in Sessions :
        /\ conn[s] = "peer_closed" /\ pc[s] = "idle"
        /\ request[s].action = "register_course"
        /\ response[s].status = "success"
        /\ CopiesIn(<<username[s], "PHYS1">>, db.registrations) = 1
        /\ request[t].action = "register_course"
        /\ Answered(t) /\ WriteFailed(response[t])
        /\ username[t] = username[s]

\* The step leaves everything that belongs to session t as it is: its
\* connection, the locals of its thread and the thread's position.
Untouched(t) ==
    /\ conn'[t] = conn[t]
    /\ is_authenticated'[t] = is_authenticated[t]
    /\ user_type'[t] = user_type[t]
    /\ username'[t] = username[t]
    /\ pc'[t] = pc[t]
    /\ request'[t] = request[t]
    /\ frame'[t] = frame[t]
    /\ response'[t] = response[t]

\* C26: every step, the end of a connection by disconnect or logout and the
\* answer to a frame that is no request included, changes the connection,
\* the authenticated flag, the role, the username and the thread of at most
\* one session; and whatever the other sessions have done, the supervisor
\* can accept a connection it has not accepted yet.
C26_SessionIsolation ==
    /\ [][\E s \in Sessions : \A t \in Sessions \ {s} : Untouched(t)]_vars
    /\ [](\A t \in Sessions : conn[t] = "none" => ENABLED Accept(t))

\* C26's case: one connection has ended while another session, which s1
\* authenticated, has since been answered an error and is still
\* authenticated on its open connection.
C26_Witness ==
    \E s, t \in Sessions :
        /\ conn[s] = "closed"
        /\ conn[t] = "open"
        /\ is_authenticated[t] /\ user_type[t] = "student"
        /\ username[t] = "s1"
        /\ Answered(t) /\ response[t].status = "error"

\* The weekday sets of two parsed schedules intersect and the later start
\* lies before the earlier end.
OverlapExpected(p, q) ==
    /\ \E day \in valid_days : day \in p.days /\ day \in q.days
    /\ p.start < p.end /\ p.start < q.end
    /\ q.start < p.end /\ q.start < q.end

\* The session has the answer to its request for CS101, the conflict error
\* or another.
AnsweredTarget(s) ==
    /\ Answered(s)
    /\ request[s] = Req("register_course", [course_name |-> "CS101"])

ConflictReported(s) ==
    /\ response[s].status = "error"
    /\ HasText(response[s], "Schedule conflict with '{name}' ({schedule})")

\* C27: for the schedules a and b of any two courses of the store, both
\* valid, check_schedule_overlap(a, b) is true exactly when the weekday sets
\* of a and b intersect and max(a.start, b.start) < min(a.end, b.end); and
\* the request of s1, who holds CHEM1, for CS101 is answered with the
\* schedule-conflict error exactly in that case.
C27_OverlapDefinition ==
    /\ \A c1, c2 \in DOMAIN db.courses :
          LET a == db.courses[c1].schedule
              b == db.courses[c2].schedule
          IN (parse_schedule(a) # None /\ parse_schedule(b) # None)
             => (check_schedule_overlap(a, b)
                    <=> OverlapExpected(parse_schedule(a), parse_schedule(b)))
    /\ \A s \in Sessions :
          (AnsweredTarget(s)
              /\ Rows(db) \in {{<<"s1", "CHEM1">>},
                               {<<"s1", "CHEM1">>, <<"s1", "CS101">>}}
              /\ ~HasText(response[s],
                          "You are already registered for '{course_name}'"))
          => (ConflictReported(s)
                 <=> OverlapExpected(
                         parse_schedule(db.courses["CS101"].schedule),
                         parse_schedule(db.courses["CHEM1"].schedule)))

\* C27's case: CHEM1 meets "MW 10:00-11:00" and CS101 "M 10:30-11:30"; the
\* function is true of them and the request for CS101 was answered with the
\* schedule-conflict error.
C27_Witness ==
    \E s \in Sessions :
        /\ db.courses["CHEM1"].schedule = Descriptor(<<"M", "W">>, 600, 660)
        /\ db.courses["CS101"].schedule = Descriptor(<<"M">>, 630, 690)
        /\ check_schedule_overlap(db.courses["CS101"].schedule,
                                  db.courses["CHEM1"].schedule)
        /\ AnsweredTarget(s) /\ ConflictReported(s)

\* C28: check_schedule_overlap gives the same result in both orders of its
\* arguments for the schedules of any two courses of the store, and for the
\* schedule of a course and a descriptor that parse_schedule rejects; and it
\* is true of every valid schedule and itself.
C28_OverlapSymmetry ==
    \A c \in DOMAIN db.courses :
        LET a == db.courses[c].schedule IN
        /\ \A b \in {db.courses[c2].schedule : c2 \in DOMAIN db.courses}
                     \cup {MWF_25_26, MWF_09_09} :
              check_schedule_overlap(a, b) = check_schedule_overlap(b, a)
        /\ parse_schedule(a) # None => check_schedule_overlap(a, a)

\* C28's case: the handler has applied the function to two schedules whose
\* windows overlap on a common day, of which the one that starts later is
\* the first argument.
C28_Witness ==
    \E s \in Sessions :
        /\ db.courses["CHEM1"].schedule = Descriptor(<<"M">>, 600, 690)
        /\ db.courses["CS101"].schedule = Descriptor(<<"M", "W">>, 660, 690)
        /\ check_schedule_overlap(db.courses["CHEM1"].schedule,
                                  db.courses["CS101"].schedule)
        /\ AnsweredTarget(s) /\ ConflictReported(s)

\* One of two parsed schedules that share a weekday ends at the minute the
\* other starts.
Touching(p, q) ==
    /\ \E day \in valid_days : day \in p.days /\ day \in q.days
    /\ (p.end = q.start \/ q.end = p.start)

\* C29: check_schedule_overlap is false, in both orders, of the schedules of
\* two courses that share a weekday when one ends at the minute the other
\* starts; and the request of s1, who holds CHEM1, for a CS101 that touches
\* CHEM1 in this way is not answered with the schedule-conflict error: it
\* succeeds (and, issued again, is refused as already registered).
C29_TouchingEndpoints ==
    /\ \A c1, c2 \in DOMAIN db.courses :
          LET a == db.courses[c1].schedule
              b == db.courses[c2].schedule
          IN (parse_schedule(a) # None /\ parse_schedule(b) # None
                 /\ Touching(parse_schedule(a), parse_schedule(b)))
             => ~check_schedule_overlap(a, b) /\ ~check_schedule_overlap(b, a)
    /\ \A s \in Sessions :
          (AnsweredTarget(s)
              /\ Touching(parse_schedule(db.courses["CHEM1"].schedule),
                          parse_schedule(db.courses["CS101"].schedule)))
          => /\ BagIn(<<"s1", "CS101">>, db.registrations)
             /\ \/ response[s].status = "success"
                \/ HasText(response[s],
                           "You are already registered for '{course_name}'")

\* C29's case: s1 held CHEM1 "M 10:00-11:00", asked for CS101
\* "MW 11:00-11:30" and was answered with success; s1 holds both.
C29_Witness ==
    \E s \in Sessions :
        /\ db.courses["CHEM1"].schedule = Descriptor(<<"M">>, 600, 660)
        /\ db.courses["CS101"].schedule = Descriptor(<<"M", "W">>, 660, 690)
        /\ AnsweredTarget(s) /\ response[s].status = "success"
        /\ Rows(db) = {<<"s1", "CHEM1">>, <<"s1", "CS101">>}

LowerDays == {"m", "t", "w", "r", "f", "s", "u"}

\* The value of the run of one or two digits at positions i..j of d.
RunValue(d, i, j) ==
    IF i = j THEN DigitVal(d[i]) ELSE 10 * DigitVal(d[i]) + DigitVal(d[j])

\* Positions i..j of d hold one or two digits.
DigitRun(d, i, j) ==
    /\ j - i \in {0, 1}
    /\ \A k \in i..j : IsDigit(d[k])

\* What the descriptor d is read as: two fields separated by whitespace,
\* the first of weekday letters in either case, the second "H:M-H:M" with
\* hours up to 23 and minutes up to 59 and the start before the end; the
\* weekday letters in upper case and the two minutes of day, or None.
ReadAs(d) ==
    LET marks == {i \in 1..Len(d) : ~IsSpace(d[i])} IN
    IF marks = {} THEN None
    ELSE
      LET first == CHOOSE i \in marks : \A k \in marks : i <= k
          last  == CHOOSE i \in marks : \A k \in marks : k <= i
          gap   == {i \in first..last : IsSpace(d[i])}
      IN
      IF gap = {} \/ \E i, j \in gap : \E k \in i..j : k \notin gap THEN None
      ELSE
        LET from   == 1 + CHOOSE i \in gap : \A k \in gap : k <= i
            upto   == (CHOOSE i \in gap : \A k \in gap : i <= k) - 1
            colons == {i \in from..last : d[i] = ":"}
            dashes == {i \in from..last : d[i] = "-"}
        IN
        IF \E i \in first..upto : d[i] \notin valid_days \cup LowerDays
        THEN None
        ELSE IF Cardinality(dashes) # 1 \/ Cardinality(colons) # 2 THEN None
        ELSE
          LET dash == CHOOSE i \in dashes : TRUE
              c1   == CHOOSE i \in colons : \A k \in colons : i <= k
              c2   == CHOOSE i \in colons : \A k \in colons : k <= i
          IN
          IF ~(c1 < dash /\ dash < c2) THEN None
          ELSE IF ~(/\ DigitRun(d, from, c1 - 1)
                    /\ DigitRun(d, c1 + 1, dash - 1)
                    /\ DigitRun(d, dash + 1, c2 - 1)
                    /\ DigitRun(d, c2 + 1, last))
          THEN None
          ELSE
            LET h1 == RunValue(d, from, c1 - 1)
                m1 == RunValue(d, c1 + 1, dash - 1)
                h2 == RunValue(d, dash + 1, c2 - 1)
                m2 == RunValue(d, c2 + 1, last)
            IN
            IF h1 > 23 \/ h2 > 23 \/ m1 > 59 \/ m2 > 59 THEN None
            ELSE IF ~(60 * h1 + m1 < 60 * h2 + m2) THEN None
            ELSE [days  |-> {Upper(d[i]) : i \in first..upto},
                  start |-> 60 * h1 + m1,
                  end   |-> 60 * h2 + m2]

FormatError ==
    Error("Invalid schedule format. Use Days HH:MM-HH:MM (e.g., MWF 10:00-11:00)",
          <<>>)

\* C30: for the descriptor of every create_course request, parse_schedule
\* returns None unless the descriptor has two whitespace-separated fields,
\* the first of weekday letters in either case and the second two valid
\* 24-hour times with the start before the end, and then returns the set of
\* the weekday letters and the start and end minutes of day, with
\* 0 <= start < end < 1440; the admin's request is answered with the
\* schedule-format error exactly when the descriptor is rejected; and every
\* stored schedule is an accepted descriptor.
C30_ScheduleParser ==
    /\ \A s \in Sessions :
          request[s].action = "create_course" =>
             LET d == request[s].data.schedule
                 parsed == parse_schedule(d)
             IN
             /\ parsed = ReadAs(d)
             /\ parsed # None =>
                   /\ parsed.days \subseteq valid_days /\ parsed.days # {}
                   /\ 0 <= parsed.start /\ parsed.start < parsed.end
                   /\ parsed.end < 1440
             /\ (Answered(s) /\ user_type[s] = "admin")
                   => (response[s] = FormatError <=> ReadAs(d) = None)
    /\ \A c \in DOMAIN db.courses : ReadAs(db.courses[c].schedule) # None

\* C30's case: the admin created CS101 with "mwf 10:00-11:00", which was
\* accepted as the days M, W, F from minute 600 to minute 660, and was then
\* refused "MX 10:00-11:00" for its format.
C30_Witness ==
    \E s \in Sessions :
        /\ "CS101" \in DOMAIN db.courses
        /\ db.courses["CS101"].schedule = <<"m", "w", "f", " ">> \o TimeField(600, 660)
        /\ parse_schedule(db.courses["CS101"].schedule) =
              [days |-> {"M", "W", "F"}, start |-> 600, end |-> 660]
        /\ Answered(s) /\ request[s].action = "create_course"
        /\ request[s].data.schedule = <<"M", "X", " ">> \o TimeField(600, 660)
        /\ response[s] = FormatError

\* C31: a step that changes the registrations is the answering step of a
\* register_course answered with success, which adds the one row (session's
\* student, requested course), or of a withdraw_course answered with success,
\* which removes that one row; and no step of a session serving any other
\* request, or answering with an error, changes the registrations.
C31_RegistrationLifecycle ==
    [][/\ db'.registrations # db.registrations =>
            \E s \in Sessions :
                /\ Actor(s)
                /\ pc'[s] = "idle"
                /\ response'[s].status = "success"
                /\ request[s].action \in StudentMutations
                /\ LET row == SetToBag({<<username[s],
                                          request[s].data.course_name>>})
                   IN IF request[s].action = "register_course"
                      THEN db'.registrations = db.registrations (+) row
                      ELSE db'.registrations (+) row = db.registrations
       /\ \A s \in Sessions :
            (StepOf(s) /\ (\/ request'[s].action \notin StudentMutations
                           \/ response'[s].status # "success"))
            => db'.registrations = db.registrations]_vars

\* C31's case: one session of s2 registered for CS101, another withdrew from
\* it, both with success, and the registrations are those of the start.
C31_Witness ==
    \E s, t \in Sessions :
        /\ request[s] = Req("register_course", [course_name |-> "CS101"])
        /\ request[t] = Req("withdraw_course", [course_name |-> "CS101"])
        /\ Answered(s) /\ response[s].status = "success"
        /\ Answered(t) /\ response[t].status = "success"
        /\ db.registrations = SeedDb.registrations

\* The response the five checks, taken in the order not-found, full,
\* already-registered, limit-exceeded, schedule-conflict, give student u's
\* request for course c on store d: the error of the first that fails.
FirstFailure(d, u, c) ==
    IF c \notin DOMAIN d.courses
    THEN "Course '{course_name}' not found"
    ELSE IF CountRegistrations(d, c) >= d.courses[c].capacity
    THEN "Course '{course_name}' is full"
    ELSE IF <<u, c>> \in Rows(d)
    THEN "You are already registered for '{course_name}'"
    ELSE IF CountOfStudent(d, u) >= MAX_COURSES_PER_STUDENT
    THEN "Cannot register for more than {MAX_COURSES_PER_STUDENT} courses"
    ELSE IF \E h \in HeldBy(d, u) :
                Meets(d.courses[c].schedule, d.courses[h].schedule)
    THEN "Schedule conflict with '{name}' ({schedule})"
    ELSE "Successfully registered for '{course_name}'"

\* C32: when requests are handled one at a time, the step that answers a
\* student's register_course answers with the error of the first of the
\* checks not-found, full, already-registered, limit-exceeded,
\* schedule-conflict that fails on the store, and with success exactly when
\* none fails.
C32_CheckOrder ==
    [][\A s \in Sessions :
          (/\ StepOf(s)
           /\ pc'[s] = "idle"
           /\ is_authenticated[s] /\ user_type[s] = "student"
           /\ request'[s].action = "register_course")
          => LET expected == FirstFailure(db, username[s],
                                          request'[s].data.course_name)
             IN /\ HasText(response'[s], expected)
                /\ response'[s].status = "success"
                     <=> expected = "Successfully registered for '{course_name}'"]_vars

\* C32's case: s1 holds CHEM1 and four more courses, s2 took the second seat
\* of CHEM1, and s1's request for CHEM1, which fails the checks full,
\* already-registered and limit-exceeded, was answered 'full'.
C32_Witness ==
    \E s \in Sessions :
        /\ username[s] = "s1"
        /\ request[s] = Req("register_course", [course_name |-> "CHEM1"])
        /\ Answered(s)
        /\ HasText(response[s], "Course '{course_name}' is full")
        /\ <<"s1", "CHEM1">> \in Rows(db)
        /\ CountOfStudent(db, "s1") >= MAX_COURSES_PER_STUDENT
        /\ Quiet

\* The characters of the course names in the order of their codes, which is
\* the order in which the store compares text.
CodeOrder ==
    <<"0", "1", "2", "3", "4", "5", "6", "7", "8", "9",
      "A", "B", "C", "D", "E", "F", "G", "H", "I", "J", "K", "L", "M",
      "N", "O", "P", "Q", "R", "S", "T", "U", "V", "W", "X", "Y", "Z">>

CodeOf(ch) == CHOOSE i \in 1..Len(CodeOrder) : CodeOrder[i] = ch

\* The characters of a course name.
Spelling(name) ==
    CASE name = "CHEM1" -> <<"C", "H", "E", "M", "1">>
      [] name = "CS101" -> <<"C", "S", "1", "0", "1">>
      [] name = "ECON1" -> <<"E", "C", "O", "N", "1">>
      [] name = "HIST1" -> <<"H", "I", "S", "T", "1">>
      [] name = "MATH1" -> <<"M", "A", "T", "H", "1">>
      [] name = "PHYS1" -> <<"P", "H", "Y", "S", "1">>
      [] name = "STAT1" -> <<"S", "T", "A", "T", "1">>

\* a comes before b in ascending order, character by character.
RECURSIVE TextBefore(_, _, _)
TextBefore(a, b, i) ==
    IF i > Len(b) THEN FALSE
    ELSE IF i > Len(a) THEN TRUE
    ELSE IF a[i] = b[i] THEN TextBefore(a, b, i + 1)
    ELSE CodeOf(a[i]) < CodeOf(b[i])

NameBefore(c1, c2) == TextBefore(Spelling(c1), Spelling(c2), 1)

\* The courses the student holds whose schedules overlap that of the target.
OverlappingHeld(d, u, target) ==
    {h \in HeldBy(d, u) : Meets(target, d.courses[h].schedule)}

\* C33: the schedule-conflict error names, with its schedule, the course
\* that comes first in ascending name order among the courses the student
\* holds that overlap the target; the name reported is thus a function of
\* the student's registrations and the target alone.
C33_DeterministicReport ==
    [][\A s \in Sessions :
          (pc[s] = "register_courses" /\ Actor(s) /\ ConflictAnswer(s))
          => LET over == OverlappingHeld(db, username[s], frame[s].schedule)
                 named == response'[s].message.args[1]
             IN /\ named \in over
                /\ \A h \in over \ {named} : NameBefore(named, h)
                /\ response'[s].message.args[2] = db.courses[named].schedule]_vars

\* C33's case: s1 holds ECON1 and PHYS1, which both overlap MATH1, and no
\* longer CHEM1; the request for MATH1 was answered with the conflict with
\* ECON1.
C33_Witness ==
    \E s \in Sessions :
        /\ request[s] = Req("register_course", [course_name |-> "MATH1"])
        /\ Answered(s)
        /\ HasText(response[s], "Schedule conflict with '{name}' ({schedule})")
        /\ response[s].message.args[1] = "ECON1"
        /\ OverlappingHeld(db, "s1", db.courses["MATH1"].schedule)
               = {"ECON1", "PHYS1"}

\* C34: the thread that holds db_lock is between the acquire and the
\* statement of one store write and its next step releases the lock; no
\* thread holds it when it receives a request, while it is in recv, or when
\* it sends a response.
C34_NoLockAcrossIO ==
    [][\A s \in Sessions :
          /\ db_lock' = s => pc'[s] \in WritePoints
          /\ (db_lock = s /\ Actor(s)) => (db_lock' = 0 /\ pc[s] \in WritePoints)
          /\ Receives(s) => db_lock # s
          /\ pc'[s] \in {"idle", "logout_break", "done"} => db_lock' # s
          /\ response'[s] # NoResponse => db_lock' # s]_vars

\* C34's case: a thread holds db_lock for its write after its client closed
\* the connection, and another thread waits for the lock.
C34_Witness ==
    \E s, t \in Sessions :
        /\ db_lock = s
        /\ pc[s] \in WritePoints
        /\ conn[s] = "peer_closed"
        /\ pc[t] \in AcquirePoints

\* The names of the courses a my_courses response lists.
ListedNames(resp) == {resp.data[2][i].name : i \in 1..Len(resp.data[2])}

\* C35: a step of a session changes only registrations whose student is the
\* session's username, and only when the session is authenticated as a
\* student; a my_courses response lists the courses of that username; the
\* username is the one of the login_student request that succeeded,
\* whatever username the later requests carry; and the session's role and
\* username stay as they are until its connection ends.
C35_IdentityBinding ==
    [][\A s \in Sessions :
          /\ StepOf(s) =>
                \A r \in Rows(db) \cup Rows(db') :
                    CopiesIn(r, db'.registrations) # CopiesIn(r, db.registrations)
                    => /\ is_authenticated[s] /\ user_type[s] = "student"
                       /\ r[1] = username[s]
          /\ (StepOf(s) /\ pc'[s] = "idle" /\ request'[s].action = "my_courses"
                 /\ response'[s].status = "success")
             => /\ is_authenticated[s] /\ user_type[s] = "student"
                /\ ListedNames(response'[s]) = HeldBy(db, username[s])
          /\ (user_type[s] = "None" /\ user_type'[s] # "None")
             => /\ request[s].action = "login_student"
                /\ response'[s].status = "success"
                /\ user_type'[s] = "student"
                /\ username'[s] = request[s].data.username
          /\ (user_type[s] # "None" /\ pc'[s] # "done")
             => /\ user_type'[s] = user_type[s]
                /\ username'[s] = username[s]]_vars

\* C35's case: a session that logged in as s1 sent register_course,
\* withdraw_course or my_courses with the username s2 in its data; it
\* registered s1, was told that s1 does not hold CHEM1, which s2 still
\* holds, or was shown the courses of s1.
C35_Witness ==
    /\ \E s \in Sessions :
          /\ username[s] = "s1" /\ Answered(s)
          /\ request[s].action = "register_course"
          /\ request[s].data.username = "s2"
          /\ response[s].status = "success"
          /\ Rows(db) = {<<"s1", "CS101">>, <<"s2", "CHEM1">>}
    /\ \E t \in Sessions :
          /\ username[t] = "s1" /\ Answered(t)
          /\ request[t].data = [course_name |-> "CHEM1", username |-> "s2"]
          /\ HasText(response[t], "You are not registered for '{course_name}'")

\* The sessions whose one mutating request was the given action of student
\* u for course c and was answered with success.
Succeeded(action, u, c) ==
    {s \in Sessions :
        /\ Answered(s)
        /\ request[s].action = action
        /\ response[s].status = "success"
        /\ username[s] = u
        /\ request[s].data.course_name = c}

\* The successes of the run that left the store: one register_course for
\* every pair the store starts with.
EarlierSuccesses(u, c) == IF <<u, c>> \in Rows(SeedDb) THEN 1 ELSE 0

\* C36: for every student and course, the register_course requests answered
\* with success minus the withdraw_course requests answered with success
\* number 1 when the pair is registered and 0 when it is not.
C36_SuccessAccounting ==
    \A u \in DOMAIN db.students, c \in DOMAIN db.courses :
        EarlierSuccesses(u, c)
            + Cardinality(Succeeded("register_course", u, c))
            - Cardinality(Succeeded("withdraw_course", u, c))
        = IF <<u, c>> \in Rows(db) THEN 1 ELSE 0

\* The responses of the three inserting handlers when db_execute returned
\* False.
StoreErrors ==
    {"Failed to register for course due to a database error",
     "Failed to create course due to a database error",
     "Failed to add student due to a database error"}

\* The named rejections of register_course, create_course and add_student.
NamedErrors ==
    {"Course name required",
     "Course '{course_name}' not found",
     "Course '{course_name}' is full",
     "You are already registered for '{course_name}'",
     "Cannot register for more than {MAX_COURSES_PER_STUDENT} courses",
     "Schedule conflict with '{name}' ({schedule})",
     "Course name, schedule, and capacity required",
     "Invalid capacity value",
     "Invalid schedule format. Use Days HH:MM-HH:MM (e.g., MWF 10:00-11:00)",
     "Course '{name}' already exists",
     "Student name, username, and password required",
     "Student username '{username}' already exists"}

\* C37: in a run whose only refused statements are those the primary keys
\* refuse, no register_course of a student session and no create_course or
\* add_student of an admin session is answered with a '... due to a
\* database error' response; each is answered with success or with one of
\* the named errors.
C37_NoSpuriousStoreErrors ==
    \A s \in Sessions :
        (/\ Answered(s)
         /\ is_authenticated[s]
         /\ \/ user_type[s] = "student" /\ request[s].action = "register_course"
            \/ user_type[s] = "admin"
                 /\ request[s].action \in {"create_course", "add_student"})
        => /\ response[s].message.text \notin StoreErrors
           /\ \/ response[s].status = "success"
              \/ response[s].message.text \in NamedErrors

\* C38: the step that answers a student's register_course with success adds
\* the one row (session's student, requested course), which the store did
\* not hold; the step that answers a withdraw_course with success removes
\* that one row, which the store held; and neither changes another
\* registration, a course or an account.
C38_SuccessFrame ==
    [][\A s \in Sessions :
          (/\ Actor(s)
           /\ pc'[s] = "idle"
           /\ response'[s].status = "success"
           /\ user_type[s] = "student"
           /\ request[s].action \in StudentMutations)
          => LET pair == <<username[s], request[s].data.course_name>>
                 row == SetToBag({pair})
             IN /\ db'.courses = db.courses
                /\ db'.students = db.students
                /\ db'.admins = db.admins
                /\ IF request[s].action = "register_course"
                   THEN /\ ~BagIn(pair, db.registrations)
                        /\ db'.registrations = db.registrations (+) row
                   ELSE /\ ~BagIn(pair, db'.registrations)
                        /\ db'.registrations (+) row = db.registrations]_vars

\* The threads that are between db_lock.acquire() and the release.
InWrite == {s \in Sessions : pc[s] \in WritePoints}

=============================================================================
